---- MODULE Spec2Model ----
(***************************************************************************)
(* Model of the PA02 network I/O programs: one connection worker of the    *)
(* two-copy (send), one-copy (sendmsg) or zero-copy (sendmsg MSG_ZEROCOPY) *)
(* sender, the kernel's zero-copy completion queue (MSG_ERRQUEUE), the     *)
(* clock that ends the send loop and the process-wide shutdown flag; the   *)
(* receiving worker; the message codec and the frame each sender builds;   *)
(* the sizing of the page-aligned buffer; the client process with its      *)
(* sender threads; the server process with its accept loop.                *)
(***************************************************************************)
EXTENDS Integers, Sequences, FiniteSets, TLC

(* ------------------------------ bounds -------------------------------- *)
\* full-length sends the run lasts for before the deadline must have passed
MaxSends == 2
\* longest field (bytes) of the messages the codec is run on
MaxFieldSize == 2
\* sender threads the client is started with (--threads)
NumWorkers == 2
\* connections that reach the server while it runs
MaxConns == 2
\* full-length sends of one sender thread before its deadline must have passed
MaxThreadSends == 1
\* full-length sends of the long send loop before its deadline must have passed
LongSends == 250
\* the send counts at which the long send loop meets a transient send error
TransientAt == {0, 1, 99, 100, 101, 199}

(* -------------------------- program constants ------------------------- *)
NUM_FIELDS == 8
PAGE_SIZE == 4096
SIZEOF_SIZE_T == 8
PollInterval == 100

\* configured --msgsize values and measured per-send latencies (us)
MsgSizes == {7, 1024}
MsgSizeDefault == 1024
Latencies == {2}

Programs == {"A1Client", "A2Client", "A3Client", "A3Server"}
Deferred == {"A3Client", "A3Server"}
\* the receiving servers' connection workers
Receivers == {"A1Receiver", "A3Receiver"}
TransientErrnos == {"EINTR", "EAGAIN", "ENOBUFS"}
FatalErrnos == {"ECONNRESET"}

VARIABLES
  prog,              \* which program's worker runs
  msg_size,          \* args->msg_size
  pc,                \* position of the worker in its function
  sock,              \* "none" | "open" | "closed"
  buf,               \* transmission buffer: "none" | "allocated" | "freed"
  msg,               \* message_t: "none" | "allocated" | "freed"
  serialized_size,   \* return value of msg_serialize (iov_len)
  probe_errno,       \* outcome of setsockopt(SO_ZEROCOPY): "NONE" before it
  zerocopy_enabled,  \* result of check_zerocopy_support
  send_count,
  completion_count,
  local_stats,       \* the worker's stats_t
  global_stats,      \* args->global_stats
  printed,           \* stats_print calls on local_stats
  shutdown_flag,
  expired,           \* get_timestamp_sec() >= end_time
  cond_seen,         \* what the last loop-condition check observed
  last_sent,         \* return value of the last send/sendmsg
  last_errno,
  last_flags,        \* flags of the last sendmsg
  used_flags,        \* set of flags values passed to any send so far
  zc_next,           \* kernel: next zero-copy notification id (sk_zckey)
  inflight,          \* kernel: ids whose pages are still pinned
  errqueue,          \* kernel: queued notifications [lo, hi, code]
  resolved,          \* ids named by the notifications the worker consumed
  overlap,           \* a consumed range named an id consumed before
  last_poll,         \* return value of the last handle_zerocopy_completions
  errq_reads,        \* whether recvmsg(MSG_ERRQUEUE) was ever called
  errq_errno,        \* errno of the last recvmsg(MSG_ERRQUEUE): "NONE" when it succeeded
  last_code,         \* ee_code of the last notification consumed (-1: none yet)
  injected,          \* whether the synthetic notification was injected
  received,          \* return value of the last recv
  cpc,               \* codec: "idle" | "start" | "raw" | "serialized" | "deserialized"
  m_in,              \* codec: the message_t given to msg_serialize
  buffer,            \* codec: the bytes of the buffer
  buffer0,           \* codec: the buffer as it was before msg_serialize
  ser_ret,           \* codec: return value of msg_serialize
  m_out,             \* codec: the message_t given to msg_deserialize
  des_len,           \* codec: buffer_size given to msg_deserialize
  des_ret,           \* codec: return value of msg_deserialize
  des_live,          \* codec: field blocks msg_deserialize left allocated
  proc,              \* client process: "idle" | "running" | "killed"
  main_pc,           \* client main: "idle" | "spawn" | "join" | "gprint_lock" | ...
  main_i,            \* client main: loop index i of the spawn and join loops
  num_threads,       \* client main: num_threads
  t_pc,              \* position of each sender thread
  t_local,           \* local_stats of each sender thread
  t_fld,             \* which total of global_stats a thread is adding to (0: none)
  t_reg,             \* the value a thread loaded from global_stats
  t_errno,           \* errno of each thread's last failed send
  g_stats,           \* main's global_stats
  g_holders,         \* threads holding global_stats.lock (0 is main)
  g_printed,         \* stats_print calls on global_stats
  sz_pc,             \* buffer sizing: "idle" | "start" | "sized"
  sz_msg_size,       \* buffer sizing: msg_size as the size_t the worker holds
  sz_buffer_size,    \* buffer sizing: buffer_size
  sz_aligned_size,   \* buffer sizing: aligned_size
  sz_ser,            \* buffer sizing: the msg_serialize call that follows
  srv_pc,            \* server main: "idle" | "check" | "accept" | "in_accept" | "spawn" | "close" | "return" | "exited"
  srv_listen,        \* server: the listening socket "none" | "open" | "closed"
  srv_pending,       \* server: connections waiting in the listen queue
  srv_conns,         \* server: connections accept has returned so far
  srv_arrived,       \* server: connections clients have made so far
  h_pc,              \* server: each connection's handler thread
  h_printed,         \* server: stats_print calls of each handler thread
  sig_thread,        \* server: thread the last signal handler ran on (-1: none)
  srv_fds,           \* server: how main dealt with each connection accept took
  rp,                \* report: one stats_t, the clock and what stats_print reports
  rg,                \* range counting: one notification and the counter, at full width
  lp,                \* long send loop: the counters of a zero-copy worker's loop
  cl,                \* cleanup: one worker's resources and the calls that release them
  fr_msg_size,       \* frames: the --msgsize every sender is started with
  frames,            \* frames: what each sender's msg_serialize left to transmit
  log                \* diagnostics written by the worker

vars == <<prog, msg_size, pc, sock, buf, msg, serialized_size,
          probe_errno, zerocopy_enabled, send_count, completion_count, local_stats,
          global_stats, printed, shutdown_flag, expired, cond_seen,
          last_sent, last_errno, last_flags, used_flags, zc_next, inflight,
          errqueue, resolved, overlap, last_poll, errq_reads, errq_errno,
          last_code, injected,
          received, cpc, m_in, buffer, buffer0, ser_ret, m_out, des_len,
          des_ret, des_live, proc, main_pc, main_i, num_threads, t_pc,
          t_local, t_fld, t_reg, t_errno, g_stats, g_holders, g_printed,
          sz_pc, sz_msg_size, sz_buffer_size, sz_aligned_size, sz_ser,
          srv_pc, srv_listen, srv_pending, srv_conns, srv_arrived, h_pc,
          h_printed, sig_thread, srv_fds, fr_msg_size, frames, cl, rp, rg, lp,
          log>>

(* --------------------------- pure functions --------------------------- *)
\* a field length rounded up
FieldSizeRoundedUp(m) == (m + NUM_FIELDS - 1) \div NUM_FIELDS

\* msg_alloc(msg_size / NUM_FIELDS): the field length of a message size
FieldSizeOf(m) == m \div NUM_FIELDS

\* a msg_serialize that does not look at the buffer size
MsgSerializeSizeUnchecked(field_size, buffer_size) ==
  SIZEOF_SIZE_T + NUM_FIELDS * field_size

\* msg_serialize: total size, or -1 when the buffer is too small
MsgSerializeSize(field_size, buffer_size) ==
  LET total_size == SIZEOF_SIZE_T + NUM_FIELDS * field_size
  IN IF buffer_size < total_size THEN -1 ELSE total_size

BufferSize(m) == SIZEOF_SIZE_T + m

AlignedSize(m) == ((BufferSize(m) + PAGE_SIZE - 1) \div PAGE_SIZE) * PAGE_SIZE

\* capacity handed to msg_serialize by each program
SerializeCapacity(p, m) == IF p = "A1Client" THEN BufferSize(m) ELSE AlignedSize(m)

\* a range counted one short
RangeCountOneShort(lo, hi) == hi - lo

\* (hi - lo + 1): the uint32_t difference; added to the int counter it gives
\* c + hi - lo + 1 modulo 2^32, which is this value while no counter leaves
\* the int range (always so within the bounds of the model)
RangeCount(lo, hi) == hi - lo + 1

\* *completed_count += n
AddCompleted(c, n) == c + n

ZeroStats == [total_bytes |-> 0, total_messages |-> 0, total_latency_us |-> 0]

StatsUpdate(st, bytes, lat) ==
  [total_bytes |-> st.total_bytes + bytes,
   total_messages |-> st.total_messages + 1,
   total_latency_us |-> st.total_latency_us + lat]

\* a status check that takes back the count of a range the kernel copied
CodeCheckedCopiedUncounted(code, c, n) == IF code # 0 THEN c - n ELSE c

\* if (serr->ee_code != 0) { }: the branch is empty, the count stays
CodeChecked(code, c, n) == c

\* every failure of recvmsg taken for an error
OnRecvmsgErrorAllFatal(e) ==
  [ret |-> -1, log |-> {"recvmsg MSG_ERRQUEUE failed"}]

\* if (ret < 0) { if (errno == EAGAIN || errno == EWOULDBLOCK) return 0;
\*                perror(...); return -1; }
OnRecvmsgError(e) ==
  IF e \in {"EAGAIN", "EWOULDBLOCK"}
    THEN [ret |-> 0, log |-> {}]
    ELSE [ret |-> -1, log |-> {"recvmsg MSG_ERRQUEUE failed"}]

\* handle_zerocopy_completions: one non-blocking read of the error queue.
\* recvmsg fails with EAGAIN when the queue is empty, with another errno when
\* fail; otherwise it takes the first notification off the queue
HandleZerocopyCompletions(q, c, fail) ==
  IF fail
    THEN [ret |-> OnRecvmsgError("ENOMEM").ret, errno |-> "ENOMEM",
          log |-> OnRecvmsgError("ENOMEM").log,
          count |-> c, queue |-> q, ids |-> {}, code |-> -1]
  ELSE IF q = <<>>
    THEN [ret |-> OnRecvmsgError("EAGAIN").ret, errno |-> "EAGAIN",
          log |-> OnRecvmsgError("EAGAIN").log,
          count |-> c, queue |-> q, ids |-> {}, code |-> -1]
  ELSE LET n == RangeCount(Head(q).lo, Head(q).hi)
       IN [ret |-> 1, errno |-> "NONE", log |-> {},
           count |-> CodeChecked(Head(q).code, AddCompleted(c, n), n),
           queue |-> Tail(q),
           ids |-> Head(q).lo .. Head(q).hi,
           code |-> Head(q).code]

SendFlags == IF zerocopy_enabled # 0 THEN "MSG_ZEROCOPY" ELSE "0"

(* ------------------------------- Init --------------------------------- *)
\* a connection worker of one of the programs progs, at its first statement;
\* a server-side worker starts with the accepted socket
WorkerInit(progs) ==
  /\ prog \in progs
  /\ msg_size \in MsgSizes
  /\ pc = IF prog = "A3Server" THEN "probe"
          ELSE IF prog \in Receivers THEN "ralloc" ELSE "socket"
  /\ sock = IF prog \in {"A3Server"} \cup Receivers THEN "open" ELSE "none"
  /\ received = 0
  /\ buf = "none"
  /\ msg = "none"
  /\ serialized_size = 0
  /\ probe_errno = "NONE"
  /\ zerocopy_enabled = 0
  /\ send_count = 0
  /\ completion_count = 0
  /\ local_stats = ZeroStats
  /\ global_stats = ZeroStats
  /\ printed = 0
  /\ shutdown_flag = 0
  /\ expired = FALSE
  /\ cond_seen = [taken |-> "none", expired |-> FALSE, shutdown |-> 0]
  /\ last_sent = 0
  /\ last_errno = "NONE"
  /\ last_flags = "NONE"
  /\ used_flags = {}
  /\ zc_next = 0
  /\ inflight = {}
  /\ errqueue = <<>>
  /\ resolved = {}
  /\ overlap = FALSE
  /\ last_poll = 0
  /\ errq_reads = FALSE
  /\ errq_errno = "NONE"
  /\ last_code = -1
  /\ injected = FALSE
  /\ log = {}

recvVars == <<received>>
codecVars == <<cpc, m_in, buffer, buffer0, ser_ret, m_out, des_len, des_ret,
               des_live>>
poolVars == <<proc, main_pc, main_i, num_threads, t_pc, t_local, t_fld, t_reg,
              t_errno, g_stats, g_holders, g_printed>>
sizeVars == <<sz_pc, sz_msg_size, sz_buffer_size, sz_aligned_size, sz_ser>>
\* what belongs to the computations and processes modelled on their own
serverVars == <<srv_pc, srv_listen, srv_pending, srv_conns, srv_arrived, h_pc,
                h_printed, sig_thread, srv_fds>>
frameVars == <<fr_msg_size, frames>>
extraVars == <<cl, rp, rg, lp>>
otherVars == <<sizeVars, serverVars, frameVars, extraVars>>
restVars == <<recvVars, codecVars, poolVars, otherVars>>
kernelVars == <<zc_next, inflight, errqueue, injected>>
sendVars == <<last_sent, last_errno, last_flags, used_flags>>
trackVars == <<send_count, completion_count, resolved, overlap, last_poll,
               errq_reads, errq_errno, last_code>>
probeVars == <<probe_errno, zerocopy_enabled>>
statVars == <<local_stats, global_stats, printed>>
envVars == <<shutdown_flag, expired>>
cfgVars == <<prog, msg_size>>
resVars == <<sock, buf, msg, serialized_size>>

(* ------------------------------ worker -------------------------------- *)
\* socket(AF_INET, SOCK_STREAM, 0)
CreateSocket(ok) ==
  /\ pc = "socket"
  /\ IF ok
       THEN /\ sock' = "open"
            /\ pc' = IF prog = "A3Client" THEN "probe" ELSE "connect"
            /\ log' = log
       ELSE /\ sock' = sock
            /\ pc' = "done"
            /\ log' = log \cup {"socket failed"}
  /\ UNCHANGED <<buf, msg, serialized_size, probeVars, cond_seen>>
  /\ UNCHANGED <<restVars, cfgVars, kernelVars, sendVars, trackVars, statVars, envVars>>

\* every setsockopt failure taken for "not supported"
check_zerocopy_support_any_errno(outcome) == IF outcome = "ok" THEN 1 ELSE 0

\* check_zerocopy_support: setsockopt(SO_ZEROCOPY) outcome -> 1, 0 or -1
check_zerocopy_support(outcome) ==
  IF outcome = "ok" THEN 1
  ELSE IF outcome = "ENOPROTOOPT" THEN 0
  ELSE -1

ProbeOutcomes == {"ok", "ENOPROTOOPT", "EPERM"}

Probe(outcome) ==
  /\ pc = "probe"
  /\ probe_errno' = outcome
  /\ zerocopy_enabled' = check_zerocopy_support(outcome)
  /\ IF zerocopy_enabled' < 0
       THEN /\ sock' = "closed"
            /\ pc' = "done"
            /\ log' = log \cup {"setsockopt SO_ZEROCOPY failed"}
       ELSE /\ sock' = sock
            /\ pc' = IF prog = "A3Client" THEN "connect" ELSE "alloc"
            /\ log' = IF zerocopy_enabled' = 0
                        THEN log \cup {"zerocopy not supported"}
                        ELSE log
  /\ UNCHANGED <<buf, msg, serialized_size, cond_seen>>
  /\ UNCHANGED <<restVars, cfgVars, kernelVars, sendVars, trackVars, statVars, envVars>>

\* inet_pton + connect
Connect(ok) ==
  /\ pc = "connect"
  /\ IF ok
       THEN /\ sock' = sock
            /\ pc' = "alloc"
            /\ log' = log
       ELSE /\ sock' = "closed"
            /\ pc' = "done"
            /\ log' = log \cup {"connect failed"}
  /\ UNCHANGED <<buf, msg, serialized_size, probeVars, cond_seen>>
  /\ UNCHANGED <<restVars, cfgVars, kernelVars, sendVars, trackVars, statVars, envVars>>

AllocOutcomes == {"ok", "buffer_failed", "msg_failed"}

\* the two-copy client allocates the message before the buffer, the others
\* the buffer before the message
MsgFirst == prog = "A1Client"

\* buffer allocation, msg_alloc, msg_serialize, stats_init; a failure frees
\* what was allocated before it and closes the socket
Allocate(outcome) ==
  /\ pc = "alloc"
  /\ LET size == MsgSerializeSize(FieldSizeOf(msg_size),
                                  SerializeCapacity(prog, msg_size))
     IN IF outcome = "ok" /\ size >= 0
          THEN /\ buf' = "allocated"
               /\ msg' = "allocated"
               /\ serialized_size' = size
               /\ sock' = sock
               /\ pc' = "loop"
               /\ log' = log
          ELSE /\ buf' = IF outcome = "buffer_failed"
                              \/ (MsgFirst /\ outcome = "msg_failed")
                           THEN "none" ELSE "freed"
               /\ msg' = IF outcome = "msg_failed"
                              \/ (~MsgFirst /\ outcome = "buffer_failed")
                           THEN "none" ELSE "freed"
               /\ serialized_size' = serialized_size
               /\ sock' = "closed"
               /\ pc' = "done"
               /\ log' = log \cup {"allocation failed"}
  /\ UNCHANGED <<probeVars, cond_seen>>
  /\ UNCHANGED <<restVars, cfgVars, kernelVars, sendVars, trackVars, statVars, envVars>>

\* a loop condition that forgets the shutdown flag
LoopConditionNoShutdown == ~expired

\* while (get_timestamp_sec() < end_time && !shutdown_flag)
LoopCondition == ~expired /\ shutdown_flag = 0

LoopCheck ==
  /\ pc = "loop"
  /\ LoopCondition => local_stats.total_messages < MaxSends
  /\ IF LoopCondition
       THEN /\ pc' = "send"
            /\ cond_seen' = [taken |-> "continue", expired |-> expired,
                             shutdown |-> shutdown_flag]
       ELSE /\ pc' = "drain"
            /\ cond_seen' = [taken |-> "stop", expired |-> expired,
                             shutdown |-> shutdown_flag]
  /\ UNCHANGED <<probeVars, log>>
  /\ UNCHANGED <<restVars, cfgVars, resVars, kernelVars, sendVars, trackVars, statVars,
                 envVars>>

\* a loop that never polls after a successful send
AfterSendNoPoll(n) == "loop"

\* where the loop goes after a successful full send
AfterSend(n) ==
  IF prog \in Deferred /\ n % PollInterval = 0 THEN "poll" ELSE "loop"

\* send()/sendmsg() returned the full frame length
SendOk(lat) ==
  /\ pc = "send"
  /\ last_sent' = serialized_size
  /\ last_errno' = "NONE"
  /\ last_flags' = SendFlags
  /\ used_flags' = used_flags \cup {SendFlags}
  /\ IF SendFlags = "MSG_ZEROCOPY"
       THEN /\ zc_next' = zc_next + 1
            /\ inflight' = inflight \cup {zc_next}
       ELSE UNCHANGED <<zc_next, inflight>>
  /\ send_count' = IF prog \in Deferred THEN send_count + 1 ELSE send_count
  /\ local_stats' = StatsUpdate(local_stats, serialized_size, lat)
  /\ pc' = AfterSend(send_count')
  /\ UNCHANGED <<probeVars, cond_seen, log, errqueue, injected>>
  /\ UNCHANGED <<completion_count, resolved, overlap, last_poll, errq_reads,
                 errq_errno, last_code>>
  /\ UNCHANGED <<global_stats, printed>>
  /\ UNCHANGED <<restVars, cfgVars, resVars, envVars>>

\* a short write that goes back to the loop head to send again
AfterShortRetry == "loop"

\* if (sent != serialized_size) { fprintf(stderr, ...); break; }
AfterShort == "drain"

\* send()/sendmsg() returned fewer bytes than the frame
SendShort(n) ==
  /\ pc = "send"
  /\ 0 < n /\ n < serialized_size
  /\ last_sent' = n
  /\ last_errno' = "NONE"
  /\ last_flags' = SendFlags
  /\ used_flags' = used_flags \cup {SendFlags}
  /\ IF SendFlags = "MSG_ZEROCOPY"
       THEN /\ zc_next' = zc_next + 1
            /\ inflight' = inflight \cup {zc_next}
       ELSE UNCHANGED <<zc_next, inflight>>
  /\ log' = log \cup {"partial send"}
  /\ pc' = AfterShort
  /\ UNCHANGED <<probeVars, cond_seen, errqueue, injected>>
  /\ UNCHANGED <<restVars, cfgVars, resVars, trackVars, statVars, envVars>>

\* only an interrupted call taken for transient
IsTransientEintrOnly(e) == e = "EINTR"

\* errno values after which the loop continues
IsTransient(e) ==
  IF prog \in Deferred THEN e \in {"EINTR", "EAGAIN", "ENOBUFS"}
  ELSE e \in {"EINTR", "EAGAIN"}

\* a transient error that goes straight back to the loop head
AfterTransientNoPoll == "loop"

\* where the loop goes after a transient error: the zero-copy programs call
\* handle_zerocopy_completions before continue
AfterTransient == IF prog \in Deferred THEN "poll" ELSE "loop"

\* send()/sendmsg() returned -1
SendError(e) ==
  /\ pc = "send"
  /\ last_sent' = -1
  /\ last_errno' = e
  /\ last_flags' = SendFlags
  /\ used_flags' = used_flags \cup {SendFlags}
  /\ IF IsTransient(e)
       THEN /\ pc' = AfterTransient
            /\ log' = log
       ELSE /\ pc' = "drain"
            /\ log' = log \cup {"send failed"}
  /\ UNCHANGED <<probeVars, cond_seen>>
  /\ UNCHANGED <<restVars, cfgVars, resVars, kernelVars, trackVars, statVars, envVars>>

\* the call of handle_zerocopy_completions and what it leaves behind
CallHandle(fail) ==
  LET r == HandleZerocopyCompletions(errqueue, completion_count, fail)
  IN /\ completion_count' = r.count
     /\ errqueue' = r.queue
     /\ resolved' = resolved \cup r.ids
     /\ overlap' = (overlap \/ r.ids \cap resolved # {})
     /\ last_poll' = r.ret
     /\ errq_reads' = TRUE
     /\ errq_errno' = r.errno
     /\ last_code' = IF r.code >= 0 THEN r.code ELSE last_code
     /\ log' = log \cup r.log

\* in the send loop: after a transient error, and after every 100th send
PollCompletions(fail) ==
  /\ pc = "poll"
  /\ CallHandle(fail)
  /\ pc' = "loop"
  /\ UNCHANGED <<probeVars, cond_seen, send_count>>
  /\ UNCHANGED <<zc_next, inflight, injected>>
  /\ UNCHANGED <<restVars, cfgVars, resVars, sendVars, statVars, envVars>>

\* a drain entered whatever zerocopy_enabled says
DrainConditionUnguarded == prog \in Deferred /\ completion_count < send_count

\* if (zerocopy_enabled) while (completion_count < send_count)
DrainCondition ==
  prog \in Deferred /\ zerocopy_enabled # 0 /\ completion_count < send_count

\* where a worker goes once it is past the send loop and the drain
AfterDrain == IF prog = "A3Server" THEN "print" ELSE "fold"

DrainCheck ==
  /\ pc = "drain"
  /\ pc' = IF DrainCondition THEN "drain_poll" ELSE AfterDrain
  /\ UNCHANGED <<probeVars, cond_seen, log>>
  /\ UNCHANGED <<restVars, cfgVars, resVars, kernelVars, sendVars, trackVars, statVars,
                 envVars>>

\* the body of the drain loop: one poll, usleep(1000) when it returned 0
DrainPoll(fail) ==
  /\ pc = "drain_poll"
  /\ CallHandle(fail)
  /\ pc' = "drain"
  /\ UNCHANGED <<probeVars, cond_seen, send_count>>
  /\ UNCHANGED <<zc_next, inflight, injected>>
  /\ UNCHANGED <<restVars, cfgVars, resVars, sendVars, statVars, envVars>>

\* the locked update of args->global_stats
FoldGlobal ==
  /\ pc = "fold"
  /\ global_stats' =
       [total_bytes |-> global_stats.total_bytes + local_stats.total_bytes,
        total_messages |->
          global_stats.total_messages + local_stats.total_messages,
        total_latency_us |->
          global_stats.total_latency_us + local_stats.total_latency_us]
  /\ pc' = "print"
  /\ UNCHANGED <<probeVars, cond_seen, log, local_stats, printed>>
  /\ UNCHANGED <<restVars, cfgVars, resVars, kernelVars, sendVars, trackVars, envVars>>

\* stats_print(&local_stats, ...); stats_destroy
StatsPrint ==
  /\ pc = "print"
  /\ printed' = printed + 1
  /\ pc' = "cleanup"
  /\ UNCHANGED <<probeVars, cond_seen, log, local_stats, global_stats>>
  /\ UNCHANGED <<restVars, cfgVars, resVars, kernelVars, sendVars, trackVars, envVars>>

\* msg_free(msg); free(buffer); close(fd)
Cleanup ==
  /\ pc = "cleanup"
  /\ msg' = "freed"
  /\ buf' = "freed"
  /\ sock' = "closed"
  /\ pc' = "done"
  /\ UNCHANGED <<serialized_size, probeVars, cond_seen, log>>
  /\ UNCHANGED <<restVars, cfgVars, kernelVars, sendVars, trackVars, statVars, envVars>>

(* ---------------------------- environment ----------------------------- *)
\* the kernel releases the pages of sends lo..hi and queues one notification
KernelComplete(lo, hi, code) ==
  /\ lo <= hi
  /\ \A i \in lo..hi : i \in inflight
  /\ inflight' = inflight \ (lo..hi)
  /\ errqueue' = Append(errqueue, [lo |-> lo, hi |-> hi, code |-> code])
  /\ UNCHANGED <<zc_next, injected>>
  /\ UNCHANGED <<pc, probeVars, cond_seen, log>>
  /\ UNCHANGED <<restVars, cfgVars, resVars, sendVars, trackVars, statVars, envVars>>

\* the clock passes end_time (computed when the send loop is entered)
ClockExpire ==
  /\ pc \in {"loop", "send", "poll", "rloop", "recv"}
  /\ ~expired
  /\ expired' = TRUE
  /\ UNCHANGED <<shutdown_flag, pc, probeVars, cond_seen, log>>
  /\ UNCHANGED <<restVars, cfgVars, resVars, kernelVars, sendVars, trackVars, statVars>>

\* signal_handler: SIGINT or SIGTERM
SignalHandler ==
  /\ pc # "done"
  /\ proc # "killed"
  /\ shutdown_flag' = 1
  /\ shutdown_flag # shutdown_flag'
  /\ UNCHANGED <<expired, pc, probeVars, cond_seen, log>>
  /\ UNCHANGED <<restVars, cfgVars, resVars, kernelVars, sendVars, trackVars, statVars>>

\* a test puts a notification of its own making on the error queue
InjectNotification(lo, hi) ==
  /\ ~injected
  /\ lo <= hi
  /\ pc \in {"loop", "send", "poll", "drain", "drain_poll"}
  /\ prog \in Deferred /\ zerocopy_enabled = 1
  /\ injected' = TRUE
  /\ errqueue' = Append(errqueue, [lo |-> lo, hi |-> hi, code |-> 0])
  /\ UNCHANGED <<zc_next, inflight>>
  /\ UNCHANGED <<pc, probeVars, cond_seen, log>>
  /\ UNCHANGED <<restVars, cfgVars, resVars, sendVars, trackVars, statVars, envVars>>

(* ----------------------------- receiver ------------------------------ *)
\* the frame a sender configured with the same --msgsize transmits
FrameSize(m) == MsgSerializeSize(FieldSizeOf(m), BufferSize(m))

\* length handed to recv: buffer_size in the two-copy server, aligned_size in
\* the zero-copy server
RecvCapacity(p, m) == IF p = "A1Receiver" THEN BufferSize(m) ELSE AlignedSize(m)

\* malloc / posix_memalign of the receive buffer, stats_init
RecvAllocate(ok) ==
  /\ pc = "ralloc"
  /\ IF ok
       THEN /\ buf' = "allocated"
            /\ sock' = sock
            /\ pc' = "rloop"
            /\ log' = log
       ELSE /\ buf' = buf
            /\ sock' = "closed"
            /\ pc' = "done"
            /\ log' = log \cup {"allocation failed"}
  /\ UNCHANGED <<msg, serialized_size, probeVars, cond_seen>>
  /\ UNCHANGED <<restVars, cfgVars, kernelVars, sendVars, trackVars, statVars,
                 envVars>>

\* while (get_timestamp_sec() < end_time && !shutdown_flag)
RecvLoopCheck ==
  /\ pc = "rloop"
  /\ LoopCondition => local_stats.total_messages < MaxSends
  /\ IF LoopCondition
       THEN /\ pc' = "recv"
            /\ cond_seen' = [taken |-> "continue", expired |-> expired,
                             shutdown |-> shutdown_flag]
       ELSE /\ pc' = "rprint"
            /\ cond_seen' = [taken |-> "stop", expired |-> expired,
                             shutdown |-> shutdown_flag]
  /\ UNCHANGED <<probeVars, log>>
  /\ UNCHANGED <<restVars, cfgVars, resVars, kernelVars, sendVars, trackVars,
                 statVars, envVars>>

\* a receive loop that takes no errno for transient
RecvIsTransientNever(e) == FALSE

\* if (errno == EINTR || errno == EAGAIN) continue;
RecvIsTransient(e) == e \in {"EINTR", "EAGAIN"}

\* one recv and what the loop body does with its return value n (errno e
\* when n < 0)
Recv(n, e, lat) ==
  /\ pc = "recv"
  /\ n <= RecvCapacity(prog, msg_size)
  /\ received' = n
  /\ last_errno' = IF n < 0 THEN e ELSE "NONE"
  /\ IF n < 0
       THEN /\ local_stats' = local_stats
            /\ IF RecvIsTransient(e)
                 THEN pc' = "rloop" /\ log' = log
                 ELSE pc' = "rprint" /\ log' = log \cup {"recv failed"}
       ELSE IF n = 0
         THEN /\ local_stats' = local_stats
              /\ pc' = "rprint"
              /\ log' = log \cup {"client closed connection"}
         ELSE /\ local_stats' = StatsUpdate(local_stats, n, lat)
              /\ pc' = "rloop"
              /\ log' = log
  /\ UNCHANGED <<probeVars, cond_seen, global_stats, printed>>
  /\ UNCHANGED <<last_sent, last_flags, used_flags>>
  /\ UNCHANGED <<codecVars, poolVars, otherVars, cfgVars, resVars, kernelVars,
                 trackVars, envVars>>

\* stats_print(&stats, ...); stats_destroy
RecvStatsPrint ==
  /\ pc = "rprint"
  /\ printed' = printed + 1
  /\ pc' = "rcleanup"
  /\ UNCHANGED <<probeVars, cond_seen, log, local_stats, global_stats>>
  /\ UNCHANGED <<restVars, cfgVars, resVars, kernelVars, sendVars, trackVars,
                 envVars>>

\* free(recv_buffer); close(client_fd); free(args)
RecvCleanup ==
  /\ pc = "rcleanup"
  /\ buf' = "freed"
  /\ sock' = "closed"
  /\ pc' = "done"
  /\ UNCHANGED <<msg, serialized_size, probeVars, cond_seen, log>>
  /\ UNCHANGED <<restVars, cfgVars, kernelVars, sendVars, trackVars, statVars,
                 envVars>>

\* what one recv can return: an error, end of stream, part of a frame, a
\* whole frame
RecvReturns == {-1, 0, FrameSize(msg_size) - 1, FrameSize(msg_size)}

Receiver ==
  \/ \E ok \in BOOLEAN : RecvAllocate(ok)
  \/ RecvLoopCheck
  \/ \E n \in RecvReturns, e \in TransientErrnos \cup FatalErrnos,
        lat \in Latencies : Recv(n, e, lat)
  \/ RecvStatsPrint
  \/ RecvCleanup

(* ------------------------------- codec -------------------------------- *)
\* field lengths, fill patterns and buffer capacities the codec is run on
FieldSizes == 0..MaxFieldSize
Patterns == {1, 200}
Capacities ==
  {SIZEOF_SIZE_T - 1, SIZEOF_SIZE_T, SIZEOF_SIZE_T + NUM_FIELDS,
   SIZEOF_SIZE_T + NUM_FIELDS * MaxFieldSize - 1,
   SIZEOF_SIZE_T + NUM_FIELDS * MaxFieldSize,
   SIZEOF_SIZE_T + NUM_FIELDS * MaxFieldSize + 2}
MallocsDone == {0, 3, NUM_FIELDS}

\* the object representation of a size_t: SIZEOF_SIZE_T bytes, low byte first
RECURSIVE ToBytes(_, _)
ToBytes(n, k) ==
  IF k = 0 THEN <<>> ELSE <<n % 256>> \o ToBytes(n \div 256, k - 1)

SizeT(n) == ToBytes(n, SIZEOF_SIZE_T)

\* the size_t whose highest byte is top and whose other bytes are 0
SizeTHigh(top) == [i \in 1..SIZEOF_SIZE_T |-> IF i = SIZEOF_SIZE_T THEN top ELSE 0]

\* value of a size_t below 2^24, and whether it is at least 2^24
SizeTLow(b) == b[1] + 256 * b[2] + 65536 * b[3]
SizeTIsBig(b) == \E i \in 4..SIZEOF_SIZE_T : b[i] # 0

\* k * b + carry in size_t arithmetic (modulo 2^64)
RECURSIVE SizeTMulAdd(_, _, _)
SizeTMulAdd(b, k, carry) ==
  IF b = <<>> THEN <<>>
  ELSE LET v == Head(b) * k + carry
       IN <<v % 256>> \o SizeTMulAdd(Tail(b), k, v \div 256)

\* n < t for a small n and a size_t t
SizeTLess(n, t) == SizeTIsBig(t) \/ n < SizeTLow(t)

RECURSIVE Flatten(_)
Flatten(seqs) == IF seqs = <<>> THEN <<>> ELSE Head(seqs) \o Flatten(Tail(seqs))

\* a buffer of c bytes not written yet
Fill(c) == [i \in 1..c |-> 170]

\* a message_t a caller filled in: NUM_FIELDS heap blocks of field_size
\* bytes, every field with bytes of its own
FieldByte(p, i, j) == (p + 16 * i + j) % 256

PatternMessage(field_size, p) ==
  [field_size |-> SizeT(field_size),
   field |-> [i \in 1..NUM_FIELDS |->
                [ptr |-> "heap",
                 bytes |-> [j \in 1..field_size |-> FieldByte(p, i, j)]]]]

\* what a block that malloc returned may hold: malloc does not clear it
HeapBytes == {0, 170}

\* the characters of a number printed with %d or %zu
RECURSIVE Decimal(_)
Decimal(n) ==
  IF n < 10 THEN <<48 + n>> ELSE Decimal(n \div 10) \o <<48 + (n % 10)>>

\* "Field%d_Data_%zu" for field i (from 0) and field_size
FieldText(i, field_size) ==
  <<70, 105, 101, 108, 100>> \o Decimal(i)
    \o <<95, 68, 97, 116, 97, 95>> \o Decimal(field_size)

\* snprintf(block, size, text): at most size - 1 characters and a NUL; the
\* bytes of the block after the NUL are not written
snprintf(block, size, text) ==
  IF size = 0 THEN block
  ELSE LET n == IF Len(text) < size - 1 THEN Len(text) ELSE size - 1
       IN [j \in 1..Len(block) |->
             IF j <= n THEN text[j] ELSE IF j = n + 1 THEN 0 ELSE block[j]]

\* msg_alloc: NUM_FIELDS blocks of field_size bytes from malloc (holding g),
\* each written by snprintf with its pattern text
msg_alloc(field_size, g) ==
  [field_size |-> SizeT(field_size),
   field |-> [i \in 1..NUM_FIELDS |->
                [ptr |-> "heap",
                 bytes |-> snprintf([j \in 1..field_size |-> g], field_size,
                                    FieldText(i - 1, field_size))]]]

\* a message_t not filled in yet
EmptyMessage ==
  [field_size |-> SizeT(0),
   field |-> [i \in 1..NUM_FIELDS |-> [ptr |-> "NULL", bytes |-> <<>>]]]

\* offsets that take the fields in reverse order
FieldOffsetReversed(i, L) == SIZEOF_SIZE_T + (NUM_FIELDS - i) * L

\* offset of field i (1-based) in the frame
FieldOffset(i, L) == SIZEOF_SIZE_T + (i - 1) * L

\* msg_serialize(msg, buffer, buffer_size) with buffer_size = Len(b), b the buffer
msg_serialize(m, b) ==
  LET total_size == MsgSerializeSize(SizeTLow(m.field_size), Len(b))
  IN IF total_size < 0
       THEN [ret |-> -1, buffer |-> b]
       ELSE [ret |-> total_size,
             buffer |-> m.field_size
                        \o Flatten([i \in 1..NUM_FIELDS |-> m.field[i].bytes])
                        \o SubSeq(b, total_size + 1, Len(b))]

\* msg_deserialize(msg, buffer, buffer_size); mallocs is the number of field
\* allocations that succeed (a request of 2^24 bytes or more is never served
\* here: past the length check it is at least 2^61)
msg_deserialize(m, b, buffer_size, mallocs) ==
  LET field_size == SubSeq(b, 1, SIZEOF_SIZE_T)
      total_size == SizeTMulAdd(field_size, NUM_FIELDS, SIZEOF_SIZE_T)
      L == SizeTLow(field_size)
      done == IF SizeTIsBig(field_size) THEN 0 ELSE mallocs
  IN IF buffer_size < SIZEOF_SIZE_T
       THEN [ret |-> -1, msg |-> m, live |-> 0]
     ELSE IF SizeTLess(buffer_size, total_size)
       THEN [ret |-> -1, msg |-> m, live |-> 0]
     ELSE IF done < NUM_FIELDS
       THEN [ret |-> -1, live |-> 0,
             msg |-> [field_size |-> field_size,
                      field |-> [i \in 1..NUM_FIELDS |->
                        IF i <= done THEN [ptr |-> "dangling", bytes |-> <<>>]
                        ELSE IF i = done + 1 THEN [ptr |-> "NULL", bytes |-> <<>>]
                        ELSE m.field[i]]]]
     ELSE [ret |-> SizeTLow(total_size), live |-> NUM_FIELDS,
           msg |-> [field_size |-> field_size,
                    field |-> [i \in 1..NUM_FIELDS |->
                      [ptr |-> "heap",
                       bytes |-> SubSeq(b, FieldOffset(i, L) + 1,
                                        FieldOffset(i, L) + L)]]]]

\* messages given to msg_serialize, and buffers as they may arrive from a peer
Messages ==
  {PatternMessage(L, p) : L \in FieldSizes, p \in Patterns}
  \cup {msg_alloc(L, g) : L \in FieldSizes, g \in HeapBytes}
RawBuffers ==
  {pre \o Fill(k) : pre \in {SizeT(1), SizeT(2), SizeTHigh(32),
                               [SizeTHigh(32) EXCEPT ![1] = 1]},
                    k \in {0, 8, 15}}

CodecIdle ==
  /\ cpc = "idle"
  /\ m_in = EmptyMessage
  /\ buffer = <<>>
  /\ buffer0 = <<>>
  /\ ser_ret = 0
  /\ m_out = EmptyMessage
  /\ des_len = 0
  /\ des_ret = 0
  /\ des_live = 0

\* either a message and an unwritten buffer, or a buffer that came from a peer
CodecInit ==
  /\ cpc \in {"start", "raw"}
  /\ IF cpc = "start"
       THEN /\ m_in \in Messages
            /\ \E c \in Capacities : buffer = Fill(c)
       ELSE /\ m_in = EmptyMessage
            /\ buffer \in RawBuffers
  /\ buffer0 = buffer
  /\ ser_ret = 0
  /\ m_out = EmptyMessage
  /\ des_len = 0
  /\ des_ret = 0
  /\ des_live = 0

\* everything a connection worker, the kernel and the clock own
workerVars == <<pc, log, probeVars, cond_seen, cfgVars, resVars, kernelVars,
                sendVars, trackVars, statVars, envVars, recvVars>>

\* the caller runs msg_serialize on its message and buffer
Serialize ==
  /\ cpc = "start"
  /\ LET r == msg_serialize(m_in, buffer)
     IN /\ ser_ret' = r.ret
        /\ buffer' = r.buffer
  /\ cpc' = "serialized"
  /\ UNCHANGED <<m_in, buffer0, m_out, des_len, des_ret, des_live>>
  /\ UNCHANGED <<workerVars, poolVars, otherVars>>

\* the caller runs msg_deserialize on the first n bytes of the buffer
Deserialize(n, mallocs) ==
  /\ cpc \in {"serialized", "raw"}
  /\ n \in 0..Len(buffer)
  /\ LET r == msg_deserialize(m_out, buffer, n, mallocs)
     IN /\ des_ret' = r.ret
        /\ m_out' = r.msg
        /\ des_live' = r.live
  /\ des_len' = n
  /\ cpc' = "deserialized"
  /\ UNCHANGED <<m_in, buffer, buffer0, ser_ret>>
  /\ UNCHANGED <<workerVars, poolVars, otherVars>>

\* received lengths tried: short of the prefix, the prefix alone, one byte
\* short of the buffer, the whole buffer, what msg_serialize returned
DeserializeLengths ==
  {SIZEOF_SIZE_T - 1, SIZEOF_SIZE_T, Len(buffer) - 1, Len(buffer), ser_ret}

Codec ==
  \/ Serialize
  \/ \E n \in DeserializeLengths, k \in MallocsDone : Deserialize(n, k)

(* --------------------------- client process --------------------------- *)
\* the two-copy client: main, its sender threads and the shared global_stats
Workers == 1..NumWorkers
MainThread == 0
StatFields == <<"total_bytes", "total_messages", "total_latency_us">>
Exited == {"failed", "done"}
PoolErrnos == {"EAGAIN", "ECONNRESET", "EPIPE"}

\* a mutex anybody may take
MutexAlwaysFree(holders) == TRUE

\* pthread_mutex_lock returns once no thread holds the mutex
MutexFree(holders) == holders = {}

\* a thread that goes to the += statements without pthread_mutex_lock
FoldEntryNoLock == "fold_load"

\* after its send loop a thread calls pthread_mutex_lock(&global_stats->lock)
FoldEntry == "fold_lock"

\* where main goes when its spawn loop stands at index i of n threads
AfterSpawn(i, n) == IF i < n THEN "spawn" ELSE "join"
AfterJoin(i, n) == IF i < n THEN "join" ELSE "gprint_lock"

\* a failed pthread_create that leaves num_threads as it was
CreatedCountUnadjusted(i, n) == n

\* num_threads = i; break;  when pthread_create of thread i failed
CreatedCount(i, n) == i

PoolIdle ==
  /\ proc = "idle"
  /\ main_pc = "idle"
  /\ main_i = 0
  /\ num_threads = 0
  /\ t_pc = [w \in Workers |-> "unborn"]
  /\ t_local = [w \in Workers |-> ZeroStats]
  /\ t_fld = [w \in Workers |-> 0]
  /\ t_reg = [w \in Workers |-> 0]
  /\ t_errno = [w \in Workers |-> "NONE"]
  /\ g_stats = ZeroStats
  /\ g_holders = {}
  /\ g_printed = 0

\* main after setup_signal_handlers and stats_init(&global_stats)
PoolInit ==
  /\ proc = "running"
  /\ main_pc = "spawn"
  /\ main_i = 0
  /\ num_threads = NumWorkers
  /\ t_pc = [w \in Workers |-> "unborn"]
  /\ t_local = [w \in Workers |-> ZeroStats]
  /\ t_fld = [w \in Workers |-> 0]
  /\ t_reg = [w \in Workers |-> 0]
  /\ t_errno = [w \in Workers |-> "NONE"]
  /\ g_stats = ZeroStats
  /\ g_holders = {}
  /\ g_printed = 0

mainVars == <<main_pc, main_i, num_threads, g_printed>>
threadVars == <<t_local, t_fld, t_reg, t_errno>>
poolRest == <<workerVars, codecVars, otherVars>>

\* pthread_create of thread i in the spawn loop
PthreadCreate(ok) ==
  /\ proc = "running" /\ main_pc = "spawn"
  /\ IF ok
       THEN /\ t_pc' = [t_pc EXCEPT ![main_i + 1] = "setup"]
            /\ num_threads' = num_threads
            /\ main_pc' = AfterSpawn(main_i + 1, num_threads)
            /\ main_i' = IF main_pc' = "spawn" THEN main_i + 1 ELSE 0
       ELSE /\ t_pc' = t_pc
            /\ num_threads' = CreatedCount(main_i, num_threads)
            /\ main_pc' = AfterJoin(0, num_threads')
            /\ main_i' = 0
  /\ UNCHANGED <<proc, threadVars, g_stats, g_holders, g_printed, poolRest>>

\* pthread_join(threads[i], NULL) returns when thread i has returned
PthreadJoin ==
  /\ proc = "running" /\ main_pc = "join"
  /\ t_pc[main_i + 1] \in Exited
  /\ main_pc' = AfterJoin(main_i + 1, num_threads)
  /\ main_i' = main_i + 1
  /\ UNCHANGED <<proc, num_threads, t_pc, threadVars, g_stats, g_holders,
                 g_printed, poolRest>>

\* stats_print(&global_stats, ...): lock, the printf calls, unlock
GlobalPrintLock ==
  /\ proc = "running" /\ main_pc = "gprint_lock"
  /\ MutexFree(g_holders)
  /\ g_holders' = g_holders \cup {MainThread}
  /\ main_pc' = "gprint_io"
  /\ UNCHANGED <<proc, main_i, num_threads, t_pc, threadVars, g_stats,
                 g_printed, poolRest>>

GlobalPrintIo ==
  /\ proc = "running" /\ main_pc = "gprint_io"
  /\ g_printed' = g_printed + 1
  /\ main_pc' = "gprint_unlock"
  /\ UNCHANGED <<proc, main_i, num_threads, t_pc, threadVars, g_stats,
                 g_holders, poolRest>>

GlobalPrintUnlock ==
  /\ proc = "running" /\ main_pc = "gprint_unlock"
  /\ g_holders' = g_holders \ {MainThread}
  /\ main_pc' = "exit"
  /\ UNCHANGED <<proc, main_i, num_threads, t_pc, threadVars, g_stats,
                 g_printed, poolRest>>

\* socket, connect, msg_alloc, malloc, msg_serialize: a failure of any of
\* them returns from the thread
ThreadSetup(w, ok) ==
  /\ proc = "running" /\ t_pc[w] = "setup"
  /\ t_pc' = [t_pc EXCEPT ![w] = IF ok THEN "loop" ELSE "failed"]
  /\ UNCHANGED <<proc, mainVars, threadVars, g_stats, g_holders, poolRest>>

\* while (get_timestamp_sec() < end_time && !shutdown_flag); timeleft is what
\* the clock read gives
ThreadLoopCheck(w, timeleft) ==
  /\ proc = "running" /\ t_pc[w] = "loop"
  /\ timeleft => t_local[w].total_messages < MaxThreadSends
  /\ t_pc' = [t_pc EXCEPT ![w] = IF timeleft /\ shutdown_flag = 0
                                   THEN "send" ELSE FoldEntry]
  /\ UNCHANGED <<proc, mainVars, threadVars, g_stats, g_holders, poolRest>>

\* send() returned the frame length: stats_update(&local_stats, ...)
ThreadSendOk(w) ==
  /\ proc = "running" /\ t_pc[w] = "send"
  /\ \E lat \in Latencies :
       t_local' = [t_local EXCEPT
                     ![w] = StatsUpdate(@, FrameSize(MsgSizeDefault), lat)]
  /\ t_pc' = [t_pc EXCEPT ![w] = "loop"]
  /\ UNCHANGED <<proc, mainVars, t_fld, t_reg, t_errno, g_stats, g_holders,
                 poolRest>>

\* send() returned a short count
ThreadSendShort(w) ==
  /\ proc = "running" /\ t_pc[w] = "send"
  /\ t_pc' = [t_pc EXCEPT ![w] = FoldEntry]
  /\ UNCHANGED <<proc, mainVars, threadVars, g_stats, g_holders, poolRest>>

\* send() failed with errno e; the flags are 0 (no MSG_NOSIGNAL) and the
\* process handles SIGINT and SIGTERM only, so the SIGPIPE that comes with
\* EPIPE has its default action: it ends the process
ThreadSendError(w, e) ==
  /\ proc = "running" /\ t_pc[w] = "send"
  /\ t_errno' = [t_errno EXCEPT ![w] = e]
  /\ IF e = "EPIPE"
       THEN proc' = "killed" /\ t_pc' = t_pc
       ELSE /\ proc' = proc
            /\ t_pc' = [t_pc EXCEPT ![w] = IF e \in {"EINTR", "EAGAIN"}
                                             THEN "loop" ELSE FoldEntry]
  /\ UNCHANGED <<mainVars, t_local, t_fld, t_reg, g_stats, g_holders, poolRest>>

\* pthread_mutex_lock(&args->global_stats->lock)
ThreadFoldLock(w) ==
  /\ proc = "running" /\ t_pc[w] = "fold_lock"
  /\ MutexFree(g_holders)
  /\ g_holders' = g_holders \cup {w}
  /\ t_pc' = [t_pc EXCEPT ![w] = "fold_load"]
  /\ UNCHANGED <<proc, mainVars, threadVars, g_stats, poolRest>>

\* args->global_stats->total_x += local_stats.total_x: the load
ThreadFoldLoad(w) ==
  /\ proc = "running" /\ t_pc[w] = "fold_load"
  /\ t_fld' = [t_fld EXCEPT ![w] = @ + 1]
  /\ t_reg' = [t_reg EXCEPT ![w] = g_stats[StatFields[t_fld[w] + 1]]]
  /\ t_pc' = [t_pc EXCEPT ![w] = "fold_store"]
  /\ UNCHANGED <<proc, mainVars, t_local, t_errno, g_stats, g_holders,
                 poolRest>>

\* ... and the store of the sum; after the third total the thread unlocks
ThreadFoldStore(w) ==
  /\ proc = "running" /\ t_pc[w] = "fold_store"
  /\ LET f == StatFields[t_fld[w]]
     IN g_stats' = [g_stats EXCEPT ![f] = t_reg[w] + t_local[w][f]]
  /\ t_reg' = [t_reg EXCEPT ![w] = 0]
  /\ IF t_fld[w] < Len(StatFields)
       THEN /\ t_pc' = [t_pc EXCEPT ![w] = "fold_load"]
            /\ t_fld' = t_fld
       ELSE /\ t_pc' = [t_pc EXCEPT ![w] = "fold_unlock"]
            /\ t_fld' = [t_fld EXCEPT ![w] = 0]
  /\ UNCHANGED <<proc, mainVars, t_local, t_errno, g_holders, poolRest>>

\* pthread_mutex_unlock(&args->global_stats->lock)
ThreadFoldUnlock(w) ==
  /\ proc = "running" /\ t_pc[w] = "fold_unlock"
  /\ g_holders' = g_holders \ {w}
  /\ t_pc' = [t_pc EXCEPT ![w] = "print"]
  /\ UNCHANGED <<proc, mainVars, threadVars, g_stats, poolRest>>

\* stats_print(&local_stats, ...), stats_destroy, free, msg_free, close
ThreadFinish(w) ==
  /\ proc = "running" /\ t_pc[w] = "print"
  /\ t_pc' = [t_pc EXCEPT ![w] = "done"]
  /\ UNCHANGED <<proc, mainVars, threadVars, g_stats, g_holders, poolRest>>

Main ==
  \/ \E ok \in BOOLEAN : PthreadCreate(ok)
  \/ PthreadJoin
  \/ GlobalPrintLock
  \/ GlobalPrintIo
  \/ GlobalPrintUnlock

Thread(w) ==
  \/ \E ok \in BOOLEAN : ThreadSetup(w, ok)
  \/ \E timeleft \in BOOLEAN : ThreadLoopCheck(w, timeleft)
  \/ ThreadSendOk(w)
  \/ ThreadSendShort(w)
  \/ \E e \in PoolErrnos : ThreadSendError(w, e)
  \/ ThreadFoldLock(w)
  \/ ThreadFoldLoad(w)
  \/ ThreadFoldStore(w)
  \/ ThreadFoldUnlock(w)
  \/ ThreadFinish(w)

(* --------------------------- buffer sizing ---------------------------- *)
\* values of --msgsize as atoi returns them: small ones, ones around a page,
\* the default, INT_MAX, and negative ones
MsgSizeArgs ==
  (0..16) \cup (4080..4100) \cup {MsgSizeDefault, 65536, 2147483647}
  \cup (-16..-1) \cup (-4110..-4096) \cup {-100, -2147483647 - 1}

\* (size_t)n for an int n: a negative n becomes 2^64 + n
SizeTFromInt(n) ==
  IF n >= 0 THEN SizeT(n)
  ELSE [i \in 1..SIZEOF_SIZE_T |-> 255 - SizeT(-(n + 1))[i]]

\* quotient and remainder of the division of b by a small k, high byte first
RECURSIVE SizeTDivMod(_, _, _)
SizeTDivMod(b, k, r) ==
  IF b = <<>> THEN [quot |-> <<>>, rem |-> r]
  ELSE LET cur == r * 256 + b[Len(b)]
           rest == SizeTDivMod(SubSeq(b, 1, Len(b) - 1), k, cur % k)
       IN [quot |-> Append(rest.quot, cur \div k), rem |-> rest.rem]

\* a < b for two byte sequences of the same length, low byte first
RECURSIVE BytesLess(_, _)
BytesLess(a, b) ==
  IF a = <<>> THEN FALSE
  ELSE IF a[Len(a)] # b[Len(a)] THEN a[Len(a)] < b[Len(a)]
  ELSE BytesLess(SubSeq(a, 1, Len(a) - 1), SubSeq(b, 1, Len(a) - 1))

\* size_t buffer_size = sizeof(size_t) + msg_size;
BufferSizeT(m) == SizeTMulAdd(m, 1, SIZEOF_SIZE_T)

\* size_t aligned_size = ((buffer_size + PAGE_SIZE - 1) / PAGE_SIZE) * PAGE_SIZE;
AlignedSizeT(b) ==
  SizeTMulAdd(SizeTDivMod(SizeTMulAdd(b, 1, PAGE_SIZE - 1), PAGE_SIZE, 0).quot,
              PAGE_SIZE, 0)

\* a field length rounded up, in size_t arithmetic
FieldSizeTRoundedUp(m) ==
  SizeTDivMod(SizeTMulAdd(m, 1, NUM_FIELDS - 1), NUM_FIELDS, 0).quot

\* msg_size / NUM_FIELDS
FieldSizeT(m) == SizeTDivMod(m, NUM_FIELDS, 0).quot

\* size_t total_size = sizeof(size_t) + (NUM_FIELDS * msg->field_size);
TotalSizeT(f) == SizeTMulAdd(f, NUM_FIELDS, SIZEOF_SIZE_T)

\* (int)n for a size_t n: the low 32 bits as a two's-complement number
IntFromSizeT(b) ==
  LET low == b[1] + 256 * b[2] + 65536 * b[3] + 16777216 * (b[4] % 128)
  IN IF b[4] >= 128 THEN (low - 2147483647) - 1 ELSE low

\* msg_serialize on size_t operands: whether buffer_size < total_size sent it
\* down the "Buffer too small" return, and the int the caller receives
MsgSerializeT(f, capacity) ==
  LET total_size == TotalSizeT(f)
      too_small == BytesLess(capacity, total_size)
  IN [too_small |-> too_small, total |-> total_size,
      ret |-> IF too_small THEN -1 ELSE IntFromSizeT(total_size)]

\* malloc returns no block of 2^48 bytes or more
Mallocable(n) == n[7] = 0 /\ n[8] = 0

NoSer == [p |-> "none", too_small |-> FALSE, total |-> SizeT(0), ret |-> 0]

SizingIdle ==
  /\ sz_pc = "idle"
  /\ sz_msg_size = SizeT(0)
  /\ sz_buffer_size = SizeT(0)
  /\ sz_aligned_size = SizeT(0)
  /\ sz_ser = NoSer

\* the worker holds the msg_size main parsed from --msgsize
SizingInit ==
  /\ sz_pc = "start"
  /\ \E n \in MsgSizeArgs : sz_msg_size = SizeTFromInt(n)
  /\ sz_buffer_size = SizeT(0)
  /\ sz_aligned_size = SizeT(0)
  /\ sz_ser = NoSer

\* the two size computations before posix_memalign
SizeBuffer ==
  /\ sz_pc = "start"
  /\ sz_buffer_size' = BufferSizeT(sz_msg_size)
  /\ sz_aligned_size' = AlignedSizeT(sz_buffer_size')
  /\ sz_pc' = "sized"
  /\ UNCHANGED <<sz_msg_size, sz_ser>>
  /\ UNCHANGED <<workerVars, codecVars, poolVars, serverVars, frameVars, extraVars>>

\* program p's msg_alloc(msg_size / NUM_FIELDS) and buffer allocation succeeded
\* and it calls msg_serialize with the capacity it allocated: buffer_size in
\* the two-copy client, aligned_size in the others
SizeSerialize(p) ==
  /\ sz_pc = "sized"
  /\ Mallocable(FieldSizeT(sz_msg_size))
  /\ Mallocable(sz_buffer_size) /\ Mallocable(sz_aligned_size)
  /\ LET capacity == IF p = "A1Client" THEN sz_buffer_size ELSE sz_aligned_size
         r == MsgSerializeT(FieldSizeT(sz_msg_size), capacity)
     IN sz_ser' = [p |-> p, too_small |-> r.too_small, total |-> r.total,
                   ret |-> r.ret]
  /\ sz_pc' = "serialized"
  /\ UNCHANGED <<sz_msg_size, sz_buffer_size, sz_aligned_size>>
  /\ UNCHANGED <<workerVars, codecVars, poolVars, serverVars, frameVars, extraVars>>

(* ------------------------------- frames ------------------------------- *)
\* the frame each sender program builds before its send loop
FrameMsgSizes == {0, 7, 8, 64, 128, 136, MsgSizeDefault}
NoFrame == [built |-> FALSE, size |-> 0, bytes |-> <<>>]

FramesIdle ==
  /\ fr_msg_size = 0
  /\ frames = [p \in Programs |-> NoFrame]

FramesInit ==
  /\ fr_msg_size \in FrameMsgSizes
  /\ frames = [p \in Programs |-> NoFrame]

\* msg_alloc(msg_size / NUM_FIELDS), the buffer allocation and msg_serialize
\* of program p; the first serialized_size bytes of the buffer are what its
\* send calls transmit
BuildFrame(p, g) ==
  /\ ~frames[p].built
  /\ LET r == msg_serialize(msg_alloc(FieldSizeOf(fr_msg_size), g),
                            Fill(SerializeCapacity(p, fr_msg_size)))
     IN frames' = [frames EXCEPT
                     ![p] = [built |-> TRUE, size |-> r.ret,
                             bytes |-> IF r.ret < 0 THEN <<>>
                                       ELSE SubSeq(r.buffer, 1, r.ret)]]
  /\ UNCHANGED fr_msg_size
  /\ UNCHANGED <<workerVars, codecVars, poolVars, sizeVars, serverVars, extraVars>>

(* --------------------------- server process --------------------------- *)
\* the receiving server: main's accept loop, one detached client_handler
\* thread per accepted connection, and the signals sent to the process
Handlers == 1..MaxConns
SpawnOutcomes == {"ok", "malloc_failed", "create_failed"}
NoFd == [outcome |-> "none", closes |-> 0]

\* a main that closes the connection only when pthread_create failed
MainClosesCreateOnly(outcome) == IF outcome = "create_failed" THEN 1 ELSE 0

\* close(client_fd) calls of main on the two failure paths; a connection
\* handed to a thread is the thread's to close
MainCloses(outcome) == IF outcome = "ok" THEN 0 ELSE 1

ServerIdle ==
  /\ srv_pc = "idle"
  /\ srv_listen = "none"
  /\ srv_pending = 0
  /\ srv_conns = 0
  /\ srv_arrived = 0
  /\ h_pc = [k \in Handlers |-> "unborn"]
  /\ h_printed = [k \in Handlers |-> 0]
  /\ sig_thread = -1
  /\ srv_fds = [k \in Handlers |-> NoFd]

\* main after setup_signal_handlers, socket, bind and listen succeeded
ServerInit ==
  /\ srv_pc = "check"
  /\ srv_listen = "open"
  /\ srv_pending = 0
  /\ srv_conns = 0
  /\ srv_arrived = 0
  /\ h_pc = [k \in Handlers |-> "unborn"]
  /\ h_printed = [k \in Handlers |-> 0]
  /\ sig_thread = -1
  /\ srv_fds = [k \in Handlers |-> NoFd]

\* everything of the connection worker but the shutdown flag
workerRest == <<pc, log, probeVars, cond_seen, cfgVars, resVars, kernelVars,
                sendVars, trackVars, statVars, expired, recvVars>>
serverRest == <<workerRest, codecVars, poolVars, sizeVars, frameVars, extraVars>>

\* while (!shutdown_flag)
AcceptLoopCondition == shutdown_flag = 0

ServerLoopCheck ==
  /\ srv_pc = "check"
  /\ srv_pc' = IF AcceptLoopCondition THEN "accept" ELSE "close"
  /\ UNCHANGED <<srv_listen, srv_pending, srv_conns, srv_arrived, h_pc,
                 h_printed, sig_thread, srv_fds>>
  /\ UNCHANGED <<shutdown_flag, serverRest>>

\* main enters accept() and sleeps there until a connection or a signal
AcceptCall ==
  /\ srv_pc = "accept"
  /\ srv_pc' = "in_accept"
  /\ UNCHANGED <<srv_listen, srv_pending, srv_conns, srv_arrived, h_pc,
                 h_printed, sig_thread, srv_fds>>
  /\ UNCHANGED <<shutdown_flag, serverRest>>

\* accept() returns a connection of the listen queue, or fails on it
\* (ECONNABORTED: perror, continue)
AcceptReturn(ok) ==
  /\ srv_pc = "in_accept"
  /\ srv_pending > 0
  /\ srv_pending' = srv_pending - 1
  /\ srv_conns' = srv_conns + 1
  /\ srv_pc' = IF ok THEN "spawn" ELSE "check"
  /\ srv_fds' = [srv_fds EXCEPT
                   ![srv_conns'] = [outcome |-> IF ok THEN "accepted"
                                                ELSE "accept_failed",
                                    closes |-> 0]]
  /\ UNCHANGED <<srv_listen, srv_arrived, h_pc, h_printed, sig_thread>>
  /\ UNCHANGED <<shutdown_flag, serverRest>>

\* malloc of the thread arguments, pthread_create, pthread_detach; a failure
\* closes the connection and the loop continues
Spawn(outcome) ==
  /\ srv_pc = "spawn"
  /\ h_pc' = IF outcome = "ok" THEN [h_pc EXCEPT ![srv_conns] = "setup"] ELSE h_pc
  /\ srv_fds' = [srv_fds EXCEPT
                   ![srv_conns] = [outcome |-> outcome,
                                   closes |-> @.closes + MainCloses(outcome)]]
  /\ srv_pc' = "check"
  /\ UNCHANGED <<srv_listen, srv_pending, srv_conns, srv_arrived, h_printed,
                 sig_thread>>
  /\ UNCHANGED <<shutdown_flag, serverRest>>

\* printf("Shutting down server..."); close(server_fd);
ServerClose ==
  /\ srv_pc = "close"
  /\ srv_listen' = "closed"
  /\ srv_pending' = 0
  /\ srv_pc' = "return"
  /\ UNCHANGED <<srv_conns, srv_arrived, h_pc, h_printed, sig_thread, srv_fds>>
  /\ UNCHANGED <<shutdown_flag, serverRest>>

\* return 0: the threads were detached and main waits for none of them; the
\* return ends the process, and every thread still running in it stops
\* where it is
ServerReturn ==
  /\ srv_pc = "return"
  /\ srv_pc' = "exited"
  /\ UNCHANGED <<srv_listen, srv_pending, srv_conns, srv_arrived, h_pc,
                 h_printed, sig_thread, srv_fds>>
  /\ UNCHANGED <<shutdown_flag, serverRest>>

\* client_handler up to stats_init: a failed malloc of the receive buffer
\* closes the connection and returns
HandlerSetup(k, ok) ==
  /\ srv_pc # "exited"
  /\ h_pc[k] = "setup"
  /\ h_pc' = [h_pc EXCEPT ![k] = IF ok THEN "run" ELSE "failed"]
  /\ UNCHANGED <<srv_pc, srv_listen, srv_pending, srv_conns, srv_arrived,
                 h_printed, sig_thread, srv_fds>>
  /\ UNCHANGED <<shutdown_flag, serverRest>>

\* client_handler leaves its receive loop: the deadline passed, the flag is
\* set, the peer closed or recv failed
HandlerLeaveLoop(k) ==
  /\ srv_pc # "exited"
  /\ h_pc[k] = "run"
  /\ h_pc' = [h_pc EXCEPT ![k] = "print"]
  /\ UNCHANGED <<srv_pc, srv_listen, srv_pending, srv_conns, srv_arrived,
                 h_printed, sig_thread, srv_fds>>
  /\ UNCHANGED <<shutdown_flag, serverRest>>

\* stats_print(&stats, ...), then the cleanup and the end of the thread
HandlerPrint(k) ==
  /\ srv_pc # "exited"
  /\ h_pc[k] = "print"
  /\ h_printed' = [h_printed EXCEPT ![k] = @ + 1]
  /\ h_pc' = [h_pc EXCEPT ![k] = "done"]
  /\ UNCHANGED <<srv_pc, srv_listen, srv_pending, srv_conns, srv_arrived,
                 sig_thread, srv_fds>>
  /\ UNCHANGED <<shutdown_flag, serverRest>>

\* a client connects to the listening socket
ClientConnect ==
  /\ srv_listen = "open"
  /\ srv_arrived < MaxConns
  /\ srv_arrived' = srv_arrived + 1
  /\ srv_pending' = srv_pending + 1
  /\ UNCHANGED <<srv_pc, srv_listen, srv_conns, h_pc, h_printed, sig_thread, srv_fds>>
  /\ UNCHANGED <<shutdown_flag, serverRest>>

\* threads of the process a signal can be delivered to
LiveThreads ==
  {MainThread} \cup {k \in Handlers : h_pc[k] \in {"setup", "run", "print"}}

\* SIGINT or SIGTERM sent to the process: the kernel runs signal_handler on
\* one of its threads; sa_flags = 0, so an accept() that thread sleeps in
\* returns EINTR (continue)
ServerSignal(t) ==
  /\ srv_pc # "exited"
  /\ t \in LiveThreads
  /\ shutdown_flag' = 1
  /\ sig_thread' = t
  /\ srv_pc' = IF t = MainThread /\ srv_pc = "in_accept" THEN "check" ELSE srv_pc
  /\ UNCHANGED <<srv_listen, srv_pending, srv_conns, srv_arrived, h_pc,
                 h_printed, srv_fds>>
  /\ UNCHANGED serverRest

ServerMain ==
  \/ ServerLoopCheck
  \/ AcceptCall
  \/ \E ok \in BOOLEAN : AcceptReturn(ok)
  \/ \E o \in SpawnOutcomes : Spawn(o)
  \/ ServerClose
  \/ ServerReturn

Handler(k) ==
  \/ \E ok \in BOOLEAN : HandlerSetup(k, ok)
  \/ HandlerLeaveLoop(k)
  \/ HandlerPrint(k)

(* -------------------------- resource cleanup -------------------------- *)
\* what one connection worker acquires and releases between its first
\* statement and its return: the connection (close), the transmission or
\* receive buffer (free), the message (msg_free) and, in a server's
\* client_handler, the argument record main allocated for it (free)
Resources == {"fd", "buffer", "msg", "args"}
CleanupKinds ==
  {"A1Client", "A2Client", "A3Client", "A2Server", "A3Server", "A1Receiver",
   "A3Receiver"}
ServerSide == {"A2Server", "A3Server", "A1Receiver", "A3Receiver"}
ClientSide == CleanupKinds \ ServerSide
ZeroCopyKinds == {"A3Client", "A3Server"}

\* the calls that can fail before the loop, in program order
SetupSteps(kind) ==
  CASE kind = "A3Client" -> <<"socket", "probe", "inet_pton", "connect",
                              "memalign", "msg_alloc", "serialize">>
    [] kind = "A2Client" -> <<"socket", "inet_pton", "connect", "memalign",
                              "msg_alloc", "serialize">>
    [] kind = "A1Client" -> <<"socket", "inet_pton", "connect", "msg_alloc",
                              "malloc", "serialize">>
    [] kind = "A3Server" -> <<"probe", "memalign", "msg_alloc", "serialize">>
    [] kind = "A2Server" -> <<"memalign", "msg_alloc", "serialize">>
    [] kind = "A1Receiver" -> <<"malloc">>
    [] kind = "A3Receiver" -> <<"memalign">>

\* what a successful call makes live, and what a call works on
Acquires(step) ==
  CASE step = "socket" -> {"fd"}
    [] step \in {"memalign", "malloc"} -> {"buffer"}
    [] step = "msg_alloc" -> {"msg"}
    [] OTHER -> {}

Uses(step) ==
  CASE step \in {"probe", "connect"} -> {"fd"}
    [] step = "serialize" -> {"msg", "buffer"}
    [] OTHER -> {}

\* free(args) at the end of a path of a server's handler
ArgsFree(kind) == IF kind \in ServerSide THEN <<"args">> ELSE <<>>

\* failure paths that leave the argument record to nobody
ExitOpsArgsKept(kind, step) ==
  CASE step = "socket" -> <<>>
    [] step = "msg_alloc" /\ kind # "A1Client" -> <<"buffer", "fd">>
    [] step = "malloc" /\ kind = "A1Client" -> <<"msg", "fd">>
    [] step = "serialize" -> <<"msg", "buffer", "fd">>
    [] OTHER -> <<"fd">>

\* the releases on the return that follows a failed call, in program order
\* (the two-copy client allocates the message before the buffer)
ExitOps(kind, step) ==
  (CASE step = "socket" -> <<>>
     [] step = "msg_alloc" /\ kind # "A1Client" -> <<"buffer", "fd">>
     [] step = "malloc" /\ kind = "A1Client" -> <<"msg", "fd">>
     [] step = "serialize" /\ kind # "A1Client" -> <<"msg", "buffer", "fd">>
     [] step = "serialize" /\ kind = "A1Client" -> <<"buffer", "msg", "fd">>
     [] OTHER -> <<"fd">>) \o ArgsFree(kind)

\* the releases at the end of the function
CleanupOps(kind) ==
  (IF kind \in {"A1Receiver", "A3Receiver"} THEN <<"buffer", "fd">>
   ELSE IF kind = "A1Client" THEN <<"buffer", "msg", "fd">>
   ELSE <<"msg", "buffer", "fd">>) \o ArgsFree(kind)

\* a call on resources rs: wrong when one of them is not live
Touch(c, rs) == [c EXCEPT !.bad = c.bad \/ \E r \in rs : c.state[r] # "live"]

\* close / free / msg_free, one after the other
RECURSIVE Release(_, _)
Release(c, ops) ==
  IF ops = <<>> THEN c
  ELSE Release([Touch(c, {Head(ops)}) EXCEPT
                  !.state[Head(ops)] = "released",
                  !.releases[Head(ops)] = c.releases[Head(ops)] + 1],
               Tail(ops))

NoCleanup ==
  [kind |-> "none", pc |-> "idle", step |-> 0, iter |-> 0, bad |-> FALSE,
   state |-> [r \in Resources |-> "none"],
   releases |-> [r \in Resources |-> 0]]

CleanupIdle == cl = NoCleanup

\* the thread function is entered: a handler owns the accepted connection and
\* its argument record, a client thread borrows an element of main's array
CleanupInit ==
  \E k \in CleanupKinds :
    cl = [NoCleanup EXCEPT
            !.kind = k, !.pc = "setup", !.step = 1,
            !.state = [r \in Resources |->
                         IF r = "args" \/ (r = "fd" /\ k \in ServerSide)
                           THEN "live" ELSE "none"]]

clRest ==
  <<workerVars, codecVars, poolVars, sizeVars, serverVars, frameVars, rp, rg,
    lp>>

\* one call of the set-up; when it fails the function releases and returns
SetupCall(ok) ==
  /\ cl.pc = "setup"
  /\ LET step == SetupSteps(cl.kind)[cl.step]
         used == Touch(cl, Uses(step))
     IN IF ok
          THEN cl' = [used EXCEPT
                        !.state = [r \in Resources |->
                                     IF r \in Acquires(step) THEN "live"
                                     ELSE cl.state[r]],
                        !.step = cl.step + 1,
                        !.pc = IF cl.step = Len(SetupSteps(cl.kind))
                                 THEN "loop" ELSE "setup"]
          ELSE cl' = [Release(used, ExitOps(cl.kind, step)) EXCEPT
                        !.pc = "done"]
  /\ UNCHANGED clRest

\* one send or recv on the connection and the buffer
LoopCall ==
  /\ cl.pc = "loop"
  /\ cl.iter < MaxSends
  /\ cl' = [Touch(cl, {"fd", "buffer"}) EXCEPT !.iter = cl.iter + 1]
  /\ UNCHANGED clRest

\* the deadline, the shutdown flag or a break ends the loop
LoopEnd ==
  /\ cl.pc = "loop"
  /\ cl' = [cl EXCEPT !.pc = IF cl.kind \in ZeroCopyKinds THEN "drain"
                              ELSE IF cl.kind \in ClientSide THEN "fold"
                              ELSE "print"]
  /\ UNCHANGED clRest

\* the drain: handle_zerocopy_completions(fd, ...) while completions are
\* missing, otherwise on to the report
DrainCall(more) ==
  /\ cl.pc = "drain"
  /\ cl' = [(IF more THEN Touch(cl, {"fd"}) ELSE cl) EXCEPT
              !.pc = IF more THEN "drain"
                     ELSE IF cl.kind \in ClientSide THEN "fold" ELSE "print"]
  /\ UNCHANGED clRest

\* the client thread adds to args->global_stats
FoldCall ==
  /\ cl.pc = "fold"
  /\ cl' = [Touch(cl, {"args"}) EXCEPT !.pc = "print"]
  /\ UNCHANGED clRest

\* stats_print, stats_destroy, then the releases at the end of the function
CleanupCall ==
  /\ cl.pc = "print"
  /\ cl' = [Release(cl, CleanupOps(cl.kind)) EXCEPT !.pc = "done"]
  /\ UNCHANGED clRest

NextCleanup ==
  \/ \E ok \in BOOLEAN : SetupCall(ok)
  \/ LoopCall
  \/ LoopEnd
  \/ \E more \in BOOLEAN : DrainCall(more)
  \/ FoldCall
  \/ CleanupCall

(* ------------------------- statistics report -------------------------- *)
\* one stats_t from stats_init to stats_print, the clock it reads, and a call
\* of calculate_throughput_gbps on its own. A double is modelled as NaN, an
\* infinity, or a finite value kept in thousandths
ReportTicks == 0..3
DirectBytes == {0, FrameSize(MsgSizeDefault)}
DirectDurations == {-1, 0, 1}

Finite(milli) == [kind |-> "finite", milli |-> milli]

\* a / b on doubles holding the integers a and b
FDiv(a, b) ==
  IF b = 0
    THEN [kind |-> IF a = 0 THEN "nan" ELSE IF a > 0 THEN "inf" ELSE "-inf",
          milli |-> 0]
  ELSE IF b > 0 THEN Finite((a * 1000) \div b)
  ELSE Finite(-((a * 1000) \div (-b)))

\* a throughput computed whatever the duration is
calculate_throughput_gbps_unguarded(bytes_transferred, duration_us) ==
  FDiv(bytes_transferred * 8, duration_us * 1000)

\* calculate_throughput_gbps: bits / (duration_sec * 1e9), the duration given
\* here in microseconds
calculate_throughput_gbps(bytes_transferred, duration_us) ==
  IF duration_us <= 0 THEN Finite(0)
  ELSE FDiv(bytes_transferred * 8, duration_us * 1000)

\* (total_messages > 0) ? (total_latency_us / total_messages) : 0.0
AvgLatency(st) ==
  IF st.total_messages > 0 THEN FDiv(st.total_latency_us, st.total_messages)
  ELSE Finite(0)

\* what stats_print computes and prints; Messages/sec is divided unguarded
stats_print(st, start, end) ==
  [duration |-> end - start,
   throughput |-> calculate_throughput_gbps(st.total_bytes, end - start),
   avg_latency |-> AvgLatency(st),
   rate |-> FDiv(st.total_messages * 1000000, end - start)]

NoReport ==
  [duration |-> 0, throughput |-> Finite(0), avg_latency |-> Finite(0),
   rate |-> Finite(0)]
NoDirect == [bytes |-> 0, duration |-> 0, result |-> Finite(0)]
NoStatsRun ==
  [pc |-> "idle", now |-> 0, start |-> 0, stats |-> ZeroStats,
   report |-> NoReport, direct |-> NoDirect]

ReportIdle == rp = NoStatsRun

ReportInit == rp = [NoStatsRun EXCEPT !.pc = "init"]

rpRest ==
  <<workerVars, codecVars, poolVars, sizeVars, serverVars, frameVars, cl, rg,
    lp>>

\* stats_init: memset, start_time_sec = get_timestamp_sec()
StatsInitCall ==
  /\ rp.pc = "init"
  /\ rp' = [rp EXCEPT !.pc = "live", !.start = rp.now, !.stats = ZeroStats]
  /\ UNCHANGED rpRest

\* CLOCK_MONOTONIC advances by a microsecond
ReportClockTick ==
  /\ rp.pc \in {"init", "live"}
  /\ rp.now + 1 \in ReportTicks
  /\ rp' = [rp EXCEPT !.now = rp.now + 1]
  /\ UNCHANGED rpRest

\* stats_update(stats, bytes, latency_us)
StatsUpdateCall(bytes, lat) ==
  /\ rp.pc = "live"
  /\ rp.stats.total_messages < MaxSends
  /\ rp' = [rp EXCEPT !.stats = StatsUpdate(rp.stats, bytes, lat)]
  /\ UNCHANGED rpRest

\* stats_print(stats, label): end_time_sec = get_timestamp_sec() and the report
StatsPrintCall ==
  /\ rp.pc = "live"
  /\ rp' = [rp EXCEPT !.pc = "printed",
                      !.report = stats_print(rp.stats, rp.start, rp.now)]
  /\ UNCHANGED rpRest

\* a call of calculate_throughput_gbps with arguments of the caller's choice
CalculateThroughputCall(b, d) ==
  /\ rp.pc = "printed"
  /\ rp' = [rp EXCEPT !.pc = "called",
                      !.direct = [bytes |-> b, duration |-> d,
                                  result |-> calculate_throughput_gbps(b, d)]]
  /\ UNCHANGED rpRest

NextReport ==
  \/ StatsInitCall
  \/ ReportClockTick
  \/ \E lat \in Latencies : StatsUpdateCall(FrameSize(MsgSizeDefault), lat)
  \/ StatsPrintCall
  \/ \E b \in DirectBytes, d \in DirectDurations : CalculateThroughputCall(b, d)

(* --------------------------- range counting --------------------------- *)
\* the arithmetic of one notification at full width: uint32_t ids, the int
\* counter; a 32-bit value is four bytes, low byte first
U32(n) == ToBytes(n, 4)

\* first ids of a range: small ones, ones around 2^31, and ones just before
\* the id counter wraps to 0
IdStarts ==
  {U32(0), U32(1), U32(65535), U32(2147483646), U32(2147483647),
   <<0, 0, 0, 128>>, <<1, 0, 255, 255>>, <<253, 255, 255, 255>>,
   <<254, 255, 255, 255>>, <<255, 255, 255, 255>>}
\* ids one notification covers (the kernel merges at most 65534 sends)
RangeLens == {1, 2, 3, 4, 65534}
\* completions counted before the notification
CountsBefore ==
  {0, 1, 65536, 2147483647 - 65534, 2147483643, 2147483645, 2147483646,
   2147483647}

\* a + b + carry on two values of the same width, modulo 2^width
RECURSIVE BytesAdd(_, _, _)
BytesAdd(a, b, carry) ==
  IF a = <<>> THEN <<>>
  ELSE LET v == Head(a) + Head(b) + carry
       IN <<v % 256>> \o BytesAdd(Tail(a), Tail(b), v \div 256)

\* a - b modulo 2^width
BytesSub(a, b) == BytesAdd(a, [i \in 1..Len(b) |-> 255 - b[i]], 1)

\* a range counted as hi - lo
RangeCount32OneShort(lo, hi) == BytesSub(hi, lo)

\* (hi - lo + 1) on uint32_t operands
RangeCount32(lo, hi) == BytesAdd(BytesSub(hi, lo), U32(1), 0)

\* *completed_count += n: the int is converted to unsigned, the sum taken
\* modulo 2^32 and converted back
AddCompleted32(c, n) == BytesAdd(c, n, 0)

\* the kernel numbers the sends of one notification lo, lo + 1, ... in u32
\* arithmetic: ee_data = ee_info + len - 1
RangeHi(lo, len) == BytesAdd(lo, U32(len - 1), 0)

NoRange ==
  [pc |-> "idle", lo |-> U32(0), len |-> 0, hi |-> U32(0), before |-> 0,
   added |-> U32(0), count |-> U32(0)]

RangeIdle == rg = NoRange

\* a connection that counted `before` completions; the kernel is about to
\* notify len sends starting at id lo
RangeInit ==
  \E lo \in IdStarts, len \in RangeLens, c \in CountsBefore :
    rg = [NoRange EXCEPT !.pc = "pending", !.lo = lo, !.len = len,
                         !.before = c, !.count = U32(c)]

rgRest ==
  <<workerVars, codecVars, poolVars, sizeVars, serverVars, frameVars, cl, rp,
    lp>>

\* the kernel queues the notification [lo, hi]
RangeNotify ==
  /\ rg.pc = "pending"
  /\ rg' = [rg EXCEPT !.pc = "queued", !.hi = RangeHi(rg.lo, rg.len)]
  /\ UNCHANGED rgRest

\* handle_zerocopy_completions reads it: *completed_count += (hi - lo + 1)
RangeCounted ==
  /\ rg.pc = "queued"
  /\ LET n == RangeCount32(rg.lo, rg.hi)
     IN rg' = [rg EXCEPT !.pc = "counted", !.added = n,
                         !.count = AddCompleted32(rg.count, n)]
  /\ UNCHANGED rgRest

NextRange == RangeNotify \/ RangeCounted

(* ---------------------------- long send loop -------------------------- *)
\* the send loop of a zero-copy worker over enough sends for the periodic
\* poll to come round: the counters only, a deadline or shutdown that may end
\* the loop at any check, and a kernel that has either nothing queued at a
\* poll or one notification covering every send issued so far
NoLongRun ==
  [pc |-> "idle", zc |-> 0, send_count |-> 0, completion_count |-> 0,
   issued |-> 0, since |-> 0, base |-> 0, last |-> "none"]

LongIdle == lp = NoLongRun

\* the worker enters its send loop with send_count = completion_count = 0
LongInit ==
  \E zc \in {0, 1} : lp = [NoLongRun EXCEPT !.pc = "loop", !.zc = zc]

lpRest ==
  <<workerVars, codecVars, poolVars, sizeVars, serverVars, frameVars, cl, rp,
    rg>>

\* while (get_timestamp_sec() < end_time && !shutdown_flag)
LongLoopCheck(go) ==
  /\ lp.pc = "loop"
  /\ go => lp.send_count < LongSends
  /\ lp' = [lp EXCEPT !.pc = IF go THEN "send" ELSE "out"]
  /\ UNCHANGED lpRest

\* sendmsg returned the frame length: send_count++, stats_update, and the
\* poll when send_count % 100 == 0
LongSendOk ==
  /\ lp.pc = "send"
  /\ lp' = [lp EXCEPT !.send_count = lp.send_count + 1,
                      !.issued = lp.issued + lp.zc,
                      !.since = lp.since + 1,
                      !.last = "ok",
                      !.pc = AfterSend(lp.send_count + 1)]
  /\ UNCHANGED lpRest

\* sendmsg returned a short count: break (the send took an id all the same)
LongSendShort ==
  /\ lp.pc = "send"
  /\ lp' = [lp EXCEPT !.issued = lp.issued + lp.zc, !.last = "short",
                      !.pc = "out"]
  /\ UNCHANGED lpRest

\* sendmsg failed: poll and continue on a transient errno, break otherwise
LongSendError(e) ==
  /\ lp.pc = "send"
  /\ IsTransient(e) => lp.send_count \in TransientAt
  /\ lp' = [lp EXCEPT
              !.last = IF IsTransient(e) THEN "transient" ELSE "fatal",
              !.pc = IF IsTransient(e) THEN AfterTransient ELSE "out"]
  /\ UNCHANGED lpRest

\* handle_zerocopy_completions in the loop: one read of the error queue
LongPoll(found) ==
  /\ lp.pc = "poll"
  /\ found => lp.completion_count < lp.issued
  /\ LET c == IF found THEN lp.issued ELSE lp.completion_count
     IN lp' = [lp EXCEPT !.completion_count = c, !.since = 0,
                         !.base = lp.issued - c, !.pc = "loop"]
  /\ UNCHANGED lpRest

NextLong ==
  \/ \E go \in BOOLEAN : LongLoopCheck(go)
  \/ LongSendOk
  \/ LongSendShort
  \/ \E e \in TransientErrnos \cup FatalErrnos : LongSendError(e)
  \/ \E found \in BOOLEAN : LongPoll(found)

(* --------------------------- specifications --------------------------- *)
ExtraIdle == CleanupIdle /\ ReportIdle /\ RangeIdle /\ LongIdle

OthersIdle ==
  CodecIdle /\ PoolIdle /\ SizingIdle /\ ServerIdle /\ FramesIdle /\ ExtraIdle

\* nothing but the connection worker runs
Init == WorkerInit(Programs) /\ OthersIdle

\* the codec run on its own
InitCodec ==
  /\ WorkerInit({"A1Client"}) /\ msg_size = MsgSizeDefault
  /\ CodecInit /\ PoolIdle /\ SizingIdle /\ ServerIdle /\ FramesIdle /\ ExtraIdle

\* the two-copy client process with its sender threads
InitPool ==
  /\ WorkerInit({"A1Client"}) /\ msg_size = MsgSizeDefault
  /\ CodecIdle /\ PoolInit /\ SizingIdle /\ ServerIdle /\ FramesIdle /\ ExtraIdle

NextPool == Main \/ (\E w \in Workers : Thread(w)) \/ SignalHandler

SpecPool == InitPool /\ [][NextPool]_vars

SpecCodec == InitCodec /\ [][Codec]_vars

Worker ==
  \/ \E ok \in BOOLEAN : CreateSocket(ok)
  \/ \E o \in ProbeOutcomes : Probe(o)
  \/ \E ok \in BOOLEAN : Connect(ok)
  \/ \E o \in AllocOutcomes : Allocate(o)
  \/ LoopCheck
  \/ \E lat \in Latencies : SendOk(lat)
  \/ \E n \in {serialized_size - 1} : SendShort(n)
  \/ \E e \in TransientErrnos \cup FatalErrnos : SendError(e)
  \/ \E f \in BOOLEAN : PollCompletions(f)
  \/ DrainCheck
  \/ \E f \in BOOLEAN : DrainPoll(f)
  \/ FoldGlobal
  \/ StatsPrint
  \/ Cleanup

Kernel ==
  \E lo \in 0..MaxSends, hi \in 0..MaxSends, code \in {0, 1} :
    KernelComplete(lo, hi, code)

Next == Worker \/ Kernel \/ ClockExpire \/ SignalHandler

Spec == Init /\ [][Next]_vars

\* the same program fed synthetic notifications
NextSynth ==
  \/ Next
  \/ \E lo \in 0..MaxSends, hi \in 0..MaxSends : InjectNotification(lo, hi)

\* the harness drives the zero-copy client
InitSynth == Init /\ prog = "A3Client" /\ msg_size = 1024

SpecSynth == InitSynth /\ [][NextSynth]_vars

\* a receiving server's connection worker
InitRecv == WorkerInit(Receivers) /\ OthersIdle

\* the sizing of the page-aligned buffer on its own
InitSizing ==
  /\ WorkerInit({"A3Client"}) /\ msg_size = MsgSizeDefault
  /\ CodecIdle /\ PoolIdle /\ SizingInit /\ ServerIdle /\ FramesIdle /\ ExtraIdle

NextSizing == SizeBuffer \/ \E p \in Programs : SizeSerialize(p)

SpecSizing == InitSizing /\ [][NextSizing]_vars

\* the receiving server process
InitServer ==
  /\ WorkerInit({"A1Receiver"}) /\ msg_size = MsgSizeDefault
  /\ CodecIdle /\ PoolIdle /\ SizingIdle /\ ServerInit /\ FramesIdle /\ ExtraIdle

\* the senders of the four programs started with one --msgsize
InitFrames ==
  /\ WorkerInit({"A1Client"}) /\ msg_size = MsgSizeDefault
  /\ CodecIdle /\ PoolIdle /\ SizingIdle /\ ServerIdle /\ FramesInit /\ ExtraIdle

NextFrames == \E p \in Programs, g \in HeapBytes : BuildFrame(p, g)

SpecFrames == InitFrames /\ [][NextFrames]_vars

\* one worker's acquisitions and releases
InitCleanup ==
  /\ WorkerInit({"A3Client"}) /\ msg_size = MsgSizeDefault
  /\ CodecIdle /\ PoolIdle /\ SizingIdle /\ ServerIdle /\ FramesIdle
  /\ CleanupInit /\ ReportIdle /\ RangeIdle /\ LongIdle

SpecCleanup == InitCleanup /\ [][NextCleanup]_vars

\* one statistics object from stats_init to its report
InitReport ==
  /\ WorkerInit({"A1Client"}) /\ msg_size = MsgSizeDefault
  /\ CodecIdle /\ PoolIdle /\ SizingIdle /\ ServerIdle /\ FramesIdle
  /\ CleanupIdle /\ ReportInit /\ RangeIdle /\ LongIdle

SpecReport == InitReport /\ [][NextReport]_vars

\* the counting of one notification at full width
InitRange ==
  /\ WorkerInit({"A3Client"}) /\ msg_size = MsgSizeDefault
  /\ CodecIdle /\ PoolIdle /\ SizingIdle /\ ServerIdle /\ FramesIdle
  /\ CleanupIdle /\ ReportIdle /\ RangeInit /\ LongIdle

SpecRange == InitRange /\ [][NextRange]_vars

\* the send loop of a zero-copy worker over hundreds of sends
InitLong ==
  /\ WorkerInit(Deferred) /\ msg_size = MsgSizeDefault
  /\ CodecIdle /\ PoolIdle /\ SizingIdle /\ ServerIdle /\ FramesIdle
  /\ CleanupIdle /\ ReportIdle /\ RangeIdle /\ LongInit

SpecLong == InitLong /\ [][NextLong]_vars

NextServer ==
  \/ ServerMain
  \/ \E k \in Handlers : Handler(k)
  \/ ClientConnect
  \/ \E t \in {MainThread} \cup Handlers : ServerSignal(t)

SpecServer == InitServer /\ [][NextServer]_vars

\* main and every handler thread are scheduled; neither the clients nor the
\* operator owe the server a connection or a second signal
FairSpecServer ==
  /\ SpecServer
  /\ WF_vars(ServerMain)
  /\ \A k \in Handlers : WF_vars(Handler(k))

NextRecv == Receiver \/ ClockExpire \/ SignalHandler

SpecRecv == InitRecv /\ [][NextRecv]_vars

\* the worker thread is scheduled, the clock advances and a read of the
\* error queue does not fail forever; the kernel owes no notification by any
\* deadline
FairSpec ==
  Spec /\ WF_vars(Worker) /\ WF_vars(ClockExpire) /\ SF_vars(DrainPoll(FALSE))

\* the worker and the clock are scheduled and the kernel delivers the
\* notification of every send it accepted; nothing makes a failing read of
\* the error queue succeed later
FairSpecErrq ==
  Spec /\ WF_vars(Worker) /\ WF_vars(ClockExpire) /\ WF_vars(Kernel)

(* ------------------------------ claims -------------------------------- *)
PostLoopPcs == {"drain", "drain_poll", "fold", "print", "cleanup", "done"}
AfterDrainPcs == {"fold", "print", "cleanup", "done"}
Active == prog \in Deferred /\ probe_errno = "ok"
Fallback == prog \in Deferred /\ probe_errno = "ENOPROTOOPT"
ProbeFailed == prog \in Deferred /\ probe_errno = "EPERM"

\* C1: on a Deferred connection the buffer is never freed and the connection
\* never closed while a deferred send issued on it is still unconfirmed
\* (its pages still pinned by the kernel).
C1_NoReclaimInFlight ==
  (prog \in Deferred /\ (buf = "freed" \/ sock = "closed")) => inflight = {}

\* C2: completion conservation: once draining has finished, every deferred
\* send the connection issued has been counted as resolved and none remains
\* (completion_count = send_count = N, N the number of issued deferred sends).
C2_CompletionConservation ==
  (Active /\ pc \in AfterDrainPcs) =>
    /\ completion_count = send_count
    /\ send_count = zc_next
    /\ inflight = {}

\* C3: a notification whose lo or hi lies outside the ids issued so far is
\* rejected: consuming it leaves completion_count unchanged.
C3_OutOfRangeRejected ==
  [][(/\ errqueue # <<>>
      /\ errqueue' = Tail(errqueue)
      /\ Head(errqueue).hi >= zc_next)
     => completion_count' = completion_count]_vars

\* C4: the drain after the send loop is bounded: whatever the kernel does,
\* also when the missing notifications never arrive, the worker eventually
\* reaches its exit.
C4_DrainTerminates == <>(pc = "done")

\* C5 (as claimed): ids reported by overlapping or repeated ranges are
\* counted once, so the resolved count never exceeds the number of distinct
\* ids reported.
C5_ResolvedAtMostOnce == completion_count <= Cardinality(resolved)

\* C5 (amended): while no consumed range repeats an id consumed before, the
\* resolved count is exactly the number of distinct ids reported.
C5_CountedOnceWithoutOverlap ==
  ~overlap => completion_count = Cardinality(resolved)

C5_Witness ==
  /\ injected /\ ~overlap
  /\ completion_count = 2 /\ Cardinality(resolved) = 2
  /\ pc = "done"

\* C6: probing outcome: success makes every send carry MSG_ZEROCOPY; "not
\* supported" (ENOPROTOOPT) makes every send go without it; any other failure
\* closes the socket and ends the worker with no send and untouched statistics.
C6_ProbeOutcome ==
  /\ Active => (zerocopy_enabled = 1 /\ used_flags \subseteq {"MSG_ZEROCOPY"})
  /\ Fallback => (zerocopy_enabled = 0 /\ used_flags \subseteq {"0"})
  /\ ProbeFailed =>
       /\ pc = "done" /\ sock = "closed"
       /\ used_flags = {} /\ send_count = 0
       /\ local_stats = ZeroStats /\ global_stats = ZeroStats /\ printed = 0

C6_Witness ==
  /\ prog = "A3Client" /\ ProbeFailed
  /\ pc = "done" /\ sock = "closed"

\* C7 (as claimed): in Fallback the completion side channel is never read,
\* during the send loop or after it, the drain is skipped and the recorded
\* message count equals the number of successful full sends.
C7_FallbackNeverReads ==
  Fallback =>
    /\ ~errq_reads
    /\ pc # "drain_poll"
    /\ local_stats.total_messages = send_count

\* C7 (amended): in Fallback no send carries the deferred flag, no
\* notification is ever consumed or counted, the drain is skipped and the
\* recorded message count equals the number of successful full sends.
C7_FallbackConsumesNothing ==
  Fallback =>
    /\ used_flags \subseteq {"0"}
    /\ zc_next = 0 /\ inflight = {} /\ errqueue = <<>>
    /\ completion_count = 0 /\ resolved = {} /\ last_poll \in {0, -1}
    /\ pc # "drain_poll"
    /\ local_stats.total_messages = send_count
    /\ local_stats.total_bytes = send_count * serialized_size

C7_Witness ==
  /\ Fallback /\ pc = "done"
  /\ errq_reads /\ send_count = 2 /\ local_stats.total_messages = 2

\* C8: Scenario B: with platform support the recorded total_messages always
\* equals send_count, and after the run and the drain the outstanding count
\* send_count - completion_count is 0.
C8_ScenarioB ==
  Active =>
    /\ local_stats.total_messages = send_count
    /\ pc \in AfterDrainPcs => send_count - completion_count = 0

\* C9: a deferred send that fails with ENOBUFS is not counted and leaves the
\* frame as it is; the worker's next step is one poll of the completion side
\* channel, after which it returns to the loop head to send the frame again.
C9_Backpressure ==
  [][/\ (prog \in Deferred /\ pc = "send" /\ pc' # "send"
         /\ last_errno' = "ENOBUFS")
          => /\ pc' = "poll"
             /\ send_count' = send_count
             /\ local_stats' = local_stats
             /\ zc_next' = zc_next
             /\ <<buf, serialized_size>>' = <<buf, serialized_size>>
     /\ (pc = "poll" /\ pc' # "poll")
          => /\ pc' = "loop"
             /\ errq_reads'
             /\ send_count' = send_count
             /\ <<buf, serialized_size>>' = <<buf, serialized_size>>
     /\ (pc = "loop" /\ pc' = "send")
          => /\ buf = "allocated"
             /\ serialized_size' = serialized_size]_vars

C9_Witness ==
  /\ Active /\ pc = "send"
  /\ last_errno = "ENOBUFS" /\ last_poll = 1
  /\ send_count = 1 /\ completion_count = 1

\* the observable effects of a send call
SendEffects == <<zc_next, local_stats, used_flags, last_sent, last_errno,
                 last_flags, send_count>>

\* C10: every send follows a loop-condition check that saw now < deadline
\* and no shutdown request; once a check saw otherwise the worker is past the
\* loop and never sends again.
C10_NoSendAfterStop ==
  [][/\ (pc' = "send")
          => /\ cond_seen'.taken = "continue"
             /\ ~cond_seen'.expired /\ cond_seen'.shutdown = 0
     /\ (SendEffects' # SendEffects) => pc = "send"
     /\ (pc = "loop" /\ pc' # "loop" /\ (expired \/ shutdown_flag = 1))
          => pc' = "drain"
     /\ (pc \in PostLoopPcs)
          => (pc' \in PostLoopPcs /\ SendEffects' = SendEffects)]_vars

C10_Witness ==
  /\ pc = "done" /\ cond_seen.taken = "stop" /\ cond_seen.shutdown = 1
  /\ local_stats.total_messages = 1

\* C11: once the shutdown flag is set the worker eventually leaves its loop
\* and exits (a Deferred worker after its drain), and the flag, once 1, is
\* never reset.
C11_Cancellation ==
  /\ (shutdown_flag = 1) ~> (pc = "done")
  /\ [][shutdown_flag = 1 => shutdown_flag' = 1]_vars

\* C12: a short write is fatal in every strategy: the attempt records
\* nothing in the statistics, is logged, ends the send loop, and no further
\* send (no resend, no continuation) is issued on the connection.
C12_ShortWriteFatal ==
  [][/\ (pc = "send" /\ pc' # "send"
         /\ last_sent' >= 0 /\ last_sent' < serialized_size)
          => /\ local_stats' = local_stats
             /\ global_stats' = global_stats
             /\ send_count' = send_count
             /\ "partial send" \in log'
             /\ pc' \in PostLoopPcs
     /\ ("partial send" \in log)
          => (pc' \in PostLoopPcs /\ SendEffects' = SendEffects)]_vars

C12_Witness ==
  /\ prog = "A1Client" /\ pc = "done"
  /\ "partial send" \in log
  /\ last_sent = serialized_size - 1
  /\ local_stats.total_messages = 1
  /\ global_stats.total_bytes = serialized_size

\* C13: a send that fails with EINTR or EAGAIN changes no statistic and
\* writes no log line; the worker comes back to the loop head and, while the
\* deadline has not passed and no shutdown was requested, sends the same
\* frame again.
C13_TransientRetried ==
  [][/\ (pc = "send" /\ pc' # "send" /\ last_errno' \in {"EINTR", "EAGAIN"})
          => /\ statVars' = statVars
             /\ send_count' = send_count
             /\ log' = log
             /\ pc' = (IF prog \in Deferred THEN "poll" ELSE "loop")
             /\ <<buf, msg, serialized_size>>' = <<buf, msg, serialized_size>>
     /\ (pc = "poll" /\ pc' # "poll")
          => (pc' = "loop" /\ statVars' = statVars)
     /\ (pc = "loop" /\ pc' # "loop" /\ ~expired /\ shutdown_flag = 0)
          => /\ pc' = "send"
             /\ <<buf, msg, serialized_size>>' = <<buf, msg, serialized_size>>
             /\ buf = "allocated"]_vars

C13_Witness ==
  /\ prog = "A2Client" /\ pc = "send"
  /\ last_errno = "EAGAIN" /\ last_sent = -1
  /\ ~expired /\ shutdown_flag = 0
  /\ local_stats.total_messages = 1 /\ log = {}

\* C17: a receive that returns fewer bytes than the declared frame size is
\* logged, aborts the connection (ends the receive loop) and records no
\* message.
C17_ShortReceiveAborts ==
  [][(/\ pc = "recv" /\ pc' # "recv"
      /\ received' > 0 /\ received' < FrameSize(msg_size))
     => /\ local_stats' = local_stats
        /\ log' # log
        /\ pc' = "rprint"]_vars

\* frame size prefix_width + F*L for field length L
FrameLen(L) == SIZEOF_SIZE_T + NUM_FIELDS * L

Truncated ==
  \/ des_len < SIZEOF_SIZE_T
  \/ SizeTIsBig(SubSeq(buffer, 1, SIZEOF_SIZE_T))
  \/ des_len < FrameLen(SizeTLow(SubSeq(buffer, 1, SIZEOF_SIZE_T)))

\* C19: msg_deserialize on a buffer shorter than the prefix, or shorter than
\* prefix_width + F*declared_L for the L read from the prefix, returns -1,
\* allocates no field storage and leaves the output message unchanged.
C19_TruncationRejected ==
  (cpc = "deserialized" /\ Truncated) =>
    /\ des_ret = -1
    /\ des_live = 0
    /\ m_out = EmptyMessage

\* C20: round trip: for a message m of field length L serialized into a
\* buffer of capacity at least prefix_width + F*L, msg_deserialize of the
\* result (its allocations succeeding) yields the same field length and the
\* same bytes in each of the F fields, and both calls return the frame size.
C20_RoundTrip ==
  (/\ cpc = "deserialized" /\ m_in \in Messages /\ ser_ret >= 0
   /\ des_len >= ser_ret /\ des_live = NUM_FIELDS) =>
    /\ m_out.field_size = m_in.field_size
    /\ \A i \in 1..NUM_FIELDS : m_out.field[i].bytes = m_in.field[i].bytes
    /\ des_ret = ser_ret
    /\ des_ret = FrameLen(Len(m_in.field[1].bytes))

C20_Witness ==
  /\ cpc = "deserialized" /\ m_in = PatternMessage(MaxFieldSize, 200)
  /\ Len(buffer) = FrameLen(MaxFieldSize) + 2
  /\ des_len = FrameLen(MaxFieldSize) /\ des_ret = FrameLen(MaxFieldSize)
  /\ m_out = m_in

\* threads whose fold of local_stats into global_stats is complete
Folded == {w \in Workers : t_pc[w] \in {"fold_unlock", "print", "done"}}

RECURSIVE SumLocal(_, _)
SumLocal(S, f) ==
  IF S = {} THEN 0
  ELSE LET w == CHOOSE x \in S : TRUE
       IN t_local[w][f] + SumLocal(S \ {w}, f)

\* C14: a fatal error in one client worker ends only that worker: no sibling
\* that has not failed itself is stopped by it, and once main has joined the
\* workers the aggregate is the sum of what the workers that reached the fold
\* contributed, a worker that failed before its send loop contributing
\* nothing.
C14_FailureIsolation ==
  /\ \A w \in Workers :
       (proc = "killed" /\ t_errno[w] # "EPIPE") => t_pc[w] \in Exited \cup {"unborn"}
  /\ \A w \in Workers : t_pc[w] = "failed" => t_local[w] = ZeroStats
  /\ main_pc = "exit" =>
       \A i \in 1..Len(StatFields) :
         g_stats[StatFields[i]] = SumLocal(Folded, StatFields[i])

\* C15: no lost update: after all workers have been joined each total of
\* global_stats equals the sum of that total over the local statistics of
\* the workers that reached the fold.
C15_NoLostUpdate ==
  (main_pc \in {"gprint_lock", "gprint_io", "gprint_unlock", "exit"}) =>
    /\ \A w \in 1..num_threads : t_pc[w] \in Exited
    /\ \A i \in 1..Len(StatFields) :
         g_stats[StatFields[i]] = SumLocal(Folded, StatFields[i])

C15_Witness ==
  /\ main_pc = "exit" /\ Folded = Workers
  /\ \A w \in Workers : t_local[w].total_messages = 1
  /\ g_stats.total_messages = NumWorkers
  /\ g_stats.total_bytes = NumWorkers * FrameSize(MsgSizeDefault)

\* positions at which a thread reads or writes the totals of global_stats
FoldPcs == {"fold_load", "fold_store", "fold_unlock"}
MainPrintPcs == {"gprint_io", "gprint_unlock"}

\* C16 (as claimed): the totals of global_stats are read and written only by
\* a holder of its mutex, at most one thread holds it, and the holder has
\* released it before it does I/O (a send, or the output of a report) or
\* exits.
C16_ReleasedBeforeAnyIo ==
  /\ Cardinality(g_holders) <= 1
  /\ \A w \in Workers : (t_pc[w] \in FoldPcs) <=> (w \in g_holders)
  /\ (main_pc \in MainPrintPcs) <=> (MainThread \in g_holders)
  /\ main_pc # "gprint_io" \/ MainThread \notin g_holders

\* C16 (amended): the totals of global_stats are read and written only by a
\* holder of its mutex, at most one thread holds it, and no thread holds it
\* while it is in a send call, in its setup, or after it has returned; the
\* report writes its output while it holds the mutex.
C16_LockDiscipline ==
  /\ Cardinality(g_holders) <= 1
  /\ \A w \in Workers : (t_pc[w] \in FoldPcs) <=> (w \in g_holders)
  /\ (main_pc \in MainPrintPcs) <=> (MainThread \in g_holders)
  /\ \A w \in Workers :
       t_pc[w] \in {"unborn", "setup", "loop", "send", "print"} \cup Exited
         => w \notin g_holders
  /\ main_pc \in {"spawn", "join", "exit"} => MainThread \notin g_holders

C16_Witness ==
  /\ g_holders = {1} /\ t_pc[1] = "fold_store" /\ t_fld[1] = 2
  /\ t_pc[2] = "fold_lock" /\ t_local[2].total_messages = 1
  /\ main_pc = "join"

\* prefix_width + msg_size as a number, not reduced modulo 2^64 (one byte more)
FrameBufferSize == SizeTMulAdd(sz_msg_size \o <<0>>, 1, SIZEOF_SIZE_T)

\* C21: the length requested for the transmission buffer is a multiple of the
\* page size, is at least prefix_width + msg_size and exceeds it by less than
\* one page, for every message size.
C21_AlignedSizing ==
  sz_pc = "sized" =>
    /\ SizeTDivMod(sz_aligned_size, PAGE_SIZE, 0).rem = 0
    /\ ~BytesLess(sz_aligned_size \o <<0>>, FrameBufferSize)
    /\ BytesLess(sz_aligned_size \o <<0>>,
                 SizeTMulAdd(FrameBufferSize, 1, PAGE_SIZE))

\* a step in which the worker called handle_zerocopy_completions
ErrqRead == pc \in {"poll", "drain_poll"} /\ pc' # pc

\* C22: when the non-blocking read of the notification side channel reports
\* would-block, handle_zerocopy_completions returns 0, writes no diagnostic
\* and leaves the completed count (and the queue) unchanged.
C22_NothingAvailable ==
  [][(ErrqRead /\ errq_errno' = "EAGAIN")
       => /\ last_poll' = 0
          /\ log' = log
          /\ completion_count' = completion_count
          /\ resolved' = resolved
          /\ errqueue' = errqueue]_vars

C22_Witness ==
  /\ Active /\ pc = "drain"
  /\ errq_errno = "EAGAIN" /\ last_poll = 0
  /\ send_count = 2 /\ completion_count = 1
  /\ "recvmsg MSG_ERRQUEUE failed" \notin log

\* C23: a notification for [lo, hi] resolves all hi - lo + 1 sends of the
\* range whatever its status code: consuming it adds hi - lo + 1 to the
\* completed count for "copied" (1) as for "zero-copied" (0).
C23_StatusInformational ==
  [][(ErrqRead /\ errq_errno' = "NONE")
       => /\ errqueue # <<>> /\ errqueue' = Tail(errqueue)
          /\ last_code' = Head(errqueue).code
          /\ last_poll' = 1
          /\ completion_count' =
               completion_count + Head(errqueue).hi - Head(errqueue).lo + 1
          /\ resolved' = resolved \cup (Head(errqueue).lo .. Head(errqueue).hi)]_vars

C23_Witness ==
  /\ Active /\ pc = "done"
  /\ last_code = 1
  /\ send_count = 2 /\ completion_count = 2 /\ resolved = {0, 1}

\* handler threads that set up their Statistics object
Started == {k \in Handlers : h_pc[k] \in {"run", "print", "done"}}

\* C24: every Statistics object is reported exactly once before the process
\* exits: when the client's main is past its report, every worker was joined
\* (a worker that reached its report has printed) and the aggregate was
\* printed once; when the server process has terminated, every handler
\* thread it started has printed its statistics once.
C24_ReportedOnce ==
  /\ g_printed <= 1
  /\ g_printed = 1 => \A w \in 1..num_threads : t_pc[w] \in Exited
  /\ main_pc = "exit" => g_printed = 1
  /\ \A k \in Handlers : h_printed[k] <= 1
  /\ srv_pc = "exited" => \A k \in Started : h_printed[k] = 1

\* C30: once a signal has set the shutdown flag, the server's accept loop
\* eventually observes it and main leaves the loop and closes the listening
\* socket, whichever thread the handler ran on and even if no further
\* connection arrives.
C30_ServerShutdown == (shutdown_flag = 1) ~> (srv_listen = "closed")

\* C25: all strategies produce the identical frame: for one message size the
\* senders serialize frames of the same length and the same bytes, the
\* length prefix holding the field length.
C25_IdenticalFrame ==
  \A p \in Programs, q \in Programs :
    (frames[p].built /\ frames[q].built) =>
      /\ frames[p].size = frames[q].size
      /\ frames[p].bytes = frames[q].bytes
      /\ SubSeq(frames[p].bytes, 1, SIZEOF_SIZE_T)
           = SizeT(fr_msg_size \div NUM_FIELDS)

\* C26: the frame size is 8 + 8 * floor(msg_size / 8); for message size
\* 1024 the field length is 128 and the frame 1032 bytes with its 8-byte
\* prefix.
C26_FrameSize ==
  \A p \in Programs :
    frames[p].built =>
      /\ frames[p].size = 8 + 8 * (fr_msg_size \div 8)
      /\ Len(frames[p].bytes) = frames[p].size
      /\ SizeTLow(SubSeq(frames[p].bytes, 1, 8)) = fr_msg_size \div 8
      /\ fr_msg_size = 1024 =>
           /\ frames[p].size = 1032
           /\ SubSeq(frames[p].bytes, 1, 8) = <<128, 0, 0, 0, 0, 0, 0, 0>>

C26_Witness ==
  /\ fr_msg_size = 1024
  /\ \A p \in Programs : frames[p].built /\ frames[p].size = 1032

\* C27: a deferred send that returned a short count still occupies a
\* sequence id, and the worker waits for its completion too: past the send
\* loop the number of completions the drain waits for (send_count) is the
\* number of deferred sends the kernel accepted, and the buffer is freed only
\* when the notification of every one of them was consumed.
C27_ShortSendAwaited ==
  Active =>
    /\ pc \in PostLoopPcs => send_count = zc_next
    /\ buf = "freed" => (0 .. zc_next - 1) \subseteq resolved

\* C28: in every reachable state of a Deferred worker
\* 0 <= completion_count <= send_count.
C28_CompletedAtMostIssued ==
  prog \in Deferred => (0 <= completion_count /\ completion_count <= send_count)

\* C29: when a read of the notification side channel fails with a
\* non-transient error during the drain while completions are outstanding,
\* the drain still ends and the worker goes on to its cleanup.
C29_DrainEndsOnFailure ==
  (pc = "drain" /\ last_poll = -1 /\ completion_count < send_count)
    ~> (pc \in AfterDrainPcs)

\* the worker holds a --msgsize that was not negative
NonNegativeMsgSize ==
  sz_msg_size[4] < 128 /\ \A i \in 5..SIZEOF_SIZE_T : sz_msg_size[i] = 0

\* C31: for every message size msg_size >= 0 the frame size
\* 8 + 8 * floor(msg_size / 8) is at most the buffer size 8 + msg_size and at
\* most the page-rounded size, so msg_serialize never takes its
\* buffer-too-small return in any sender worker.
C31_FrameFits ==
  (sz_pc = "serialized" /\ NonNegativeMsgSize) =>
    /\ sz_ser.total = SizeTMulAdd(FieldSizeT(sz_msg_size), 8, 8)
    /\ ~BytesLess(sz_buffer_size, sz_ser.total)
    /\ ~BytesLess(sz_aligned_size, sz_ser.total)
    /\ ~sz_ser.too_small

\* the two-copy client serialized a 4089-byte message: the 4096-byte frame
\* went into its 4097-byte buffer
C31_Witness ==
  /\ sz_pc = "serialized"
  /\ sz_msg_size = SizeT(4089)
  /\ sz_ser.p = "A1Client"
  /\ sz_buffer_size = SizeT(4097)
  /\ sz_ser.total = SizeT(4096)
  /\ sz_ser.ret = 4096
  /\ ~sz_ser.too_small

\* C32: on every exit path the worker closes its connection exactly once,
\* frees its buffer and its message at most once and only if they were
\* allocated, a server's handler frees its argument record exactly once (a
\* client thread never frees the element of main's array), and no call works
\* on a resource that was released or never acquired.
C32_ExactCleanup ==
  /\ ~cl.bad
  /\ \A r \in Resources : cl.releases[r] <= 1
  /\ cl.pc = "done" =>
       /\ \A r \in {"fd", "buffer", "msg"} :
            /\ cl.state[r] # "live"
            /\ cl.releases[r] = IF cl.state[r] = "released" THEN 1 ELSE 0
       /\ cl.releases["args"] = IF cl.kind \in ServerSide THEN 1 ELSE 0

\* the one-copy server's handler returned after msg_alloc failed: buffer
\* freed, connection closed, argument record freed, no message to free
C32_Witness ==
  /\ cl.pc = "done"
  /\ cl.kind = "A2Server"
  /\ SetupSteps(cl.kind)[cl.step] = "msg_alloc"
  /\ cl.releases = [r \in Resources |-> IF r = "msg" THEN 0 ELSE 1]

\* the send loop was left by the break after a fatal send error or after a
\* short write
LeftByFailure ==
  \/ last_sent = -1 /\ last_errno \in FatalErrnos
  \/ 0 < last_sent /\ last_sent < serialized_size

\* the worker's totals are in the shared aggregator, once, and every recorded
\* message counted the frame size
FoldedOnce ==
  /\ pc \in {"print", "cleanup", "done"}
  /\ global_stats = local_stats
  /\ local_stats.total_bytes = local_stats.total_messages * serialized_size

\* C33: a sender worker of a client that leaves its send loop through a fatal
\* send error or a short write still folds the statistics of the messages it
\* sent before into the shared aggregator, exactly once, with
\* total_bytes = total_messages * frame size.
C33_FailureStillFolds ==
  (pc = "drain" /\ prog # "A3Server" /\ LeftByFailure) ~> FoldedOnce

\* main is past its join loop
PastJoin == main_pc \in {"gprint_lock", "exit"} \cup MainPrintPcs

\* C34: if creating the i-th worker thread fails, the client stops spawning,
\* joins exactly the i workers that were created (never an uncreated thread),
\* and prints the aggregate statistics only after all of them have exited.
C34_JoinsTheCreated ==
  /\ \A w \in Workers : w > num_threads => t_pc[w] = "unborn"
  /\ main_pc = "join" =>
       /\ main_i < num_threads
       /\ \A w \in 1..num_threads : t_pc[w] # "unborn"
  /\ PastJoin =>
       /\ main_i = num_threads
       /\ \A w \in 1..num_threads : t_pc[w] \in Exited
  /\ g_printed > 0 => PastJoin

\* pthread_create failed for the second thread: main joined the first one
\* and printed the aggregate, the second never ran
C34_Witness ==
  /\ num_threads = 1
  /\ main_i = 1
  /\ t_pc[1] = "done"
  /\ t_pc[2] = "unborn"
  /\ g_printed = 1

\* a step in which recv returned and the loop body ran
RecvStep == pc = "recv" /\ pc' # "recv"

\* C35: a receiving worker records one message per receive call that
\* returned more than 0 bytes and adds exactly the returned byte count to
\* total_bytes; a receive returning 0 or a non-transient error ends the loop
\* without recording; interrupted and would-block are retried without
\* recording; after the loop the worker reports, then closes the connection.
C35_ReceiverLoop ==
  [][/\ (RecvStep /\ received' > 0) =>
          /\ local_stats'.total_messages = local_stats.total_messages + 1
          /\ local_stats'.total_bytes = local_stats.total_bytes + received'
          /\ pc' = "rloop"
     /\ (RecvStep /\ received' = 0) =>
          local_stats' = local_stats /\ pc' = "rprint"
     /\ (RecvStep /\ received' < 0 /\ last_errno' \in {"EINTR", "EAGAIN"}) =>
          local_stats' = local_stats /\ pc' = "rloop"
     /\ (RecvStep /\ received' < 0 /\ last_errno' \notin {"EINTR", "EAGAIN"}) =>
          local_stats' = local_stats /\ pc' = "rprint"
     /\ ~RecvStep => local_stats' = local_stats
     /\ printed' # printed =>
          pc = "rprint" /\ printed = 0 /\ sock = "open" /\ sock' = "open"
     /\ (sock' # sock /\ buf = "allocated") => printed = 1]_vars

\* the two-copy server's worker received a frame less one byte, then end of
\* stream; it reported one message of 1031 bytes and closed the connection
C35_Witness ==
  /\ prog = "A1Receiver" /\ msg_size = 1024
  /\ received = 0
  /\ local_stats.total_messages = 1
  /\ local_stats.total_bytes = FrameSize(msg_size) - 1
  /\ printed = 1
  /\ pc = "done" /\ sock = "closed"

\* main is past its accept loop
PastAcceptLoop == srv_pc \in {"close", "return", "exited"}

\* C36: a failed accept, a failed allocation of the worker arguments or a
\* failed thread creation never terminates the accept loop (main goes back to
\* the loop condition); on allocation or thread-creation failure the accepted
\* connection is closed exactly once and no worker runs for it; main leaves
\* the loop only when shutdown was requested.
C36_AcceptLoopGoesOn ==
  /\ PastAcceptLoop => shutdown_flag = 1
  /\ \A k \in Handlers :
       /\ srv_fds[k].outcome \in {"malloc_failed", "create_failed"} =>
            srv_fds[k].closes = 1 /\ h_pc[k] = "unborn"
       /\ srv_fds[k].outcome \in {"none", "accept_failed"} =>
            srv_fds[k].closes = 0 /\ h_pc[k] = "unborn"
       /\ srv_fds[k].outcome = "ok" =>
            srv_fds[k].closes = 0 /\ h_pc[k] # "unborn"
       /\ (k = srv_conns /\ srv_fds[k].outcome # "accepted" /\ shutdown_flag = 0)
            => srv_pc \in {"check", "accept", "in_accept"}

\* the allocation of the arguments failed for the first connection: main
\* closed it, started no thread, went on and handed the second connection to
\* a handler, with no shutdown requested
C36_Witness ==
  /\ srv_fds[1] = [outcome |-> "malloc_failed", closes |-> 1]
  /\ h_pc[1] = "unborn"
  /\ srv_fds[2].outcome = "ok"
  /\ h_pc[2] = "run"
  /\ shutdown_flag = 0

\* C37: when no message was recorded the reported average latency is 0 (no
\* division by a zero message count), and the reported throughput is 0
\* whenever the measured duration is not positive.
C37_ReportGuards ==
  /\ rp.pc \in {"printed", "called"} =>
       /\ rp.report.avg_latency.kind = "finite"
       /\ rp.stats.total_messages = 0 => rp.report.avg_latency = Finite(0)
       /\ rp.report.throughput.kind = "finite"
       /\ rp.report.duration <= 0 => rp.report.throughput = Finite(0)
  /\ rp.pc = "called" =>
       /\ rp.direct.result.kind = "finite"
       /\ rp.direct.duration <= 0 => rp.direct.result = Finite(0)

\* a statistics object that recorded one frame was printed within the
\* microsecond it was initialised in: throughput 0 is reported for the 1032
\* bytes
C37_Witness ==
  /\ rp.pc = "printed"
  /\ rp.stats.total_messages = 1
  /\ rp.stats.total_bytes = FrameSize(MsgSizeDefault)
  /\ rp.report.duration = 0
  /\ rp.report.throughput = Finite(0)
  /\ rp.report.rate.kind = "inf"

\* the run has had fewer than 2^31 sends: the completions counted before the
\* notification and the sends it covers are sends of the run
FewerThan2G == rg.before <= 2147483647 - rg.len

\* C38: for a notification range [lo, hi] of 32-bit ids the amount added to
\* the completed count is (hi - lo + 1) mod 2^32, which is the number of ids
\* in the range also when the id counter wrapped between lo and hi, and the
\* signed completed count does not overflow in a run with fewer than 2^31
\* sends.
C38_RangeArithmetic ==
  rg.pc = "counted" =>
    /\ rg.added = U32(rg.len)
    /\ FewerThan2G => IntFromSizeT(rg.count) = rg.before + rg.len

\* the id counter wrapped inside the range: ids 0xFFFFFFFE, 0xFFFFFFFF, 0, 1
\* were notified as [0xFFFFFFFE, 1] and counted as 4
C38_Witness ==
  /\ rg.pc = "counted"
  /\ rg.lo = <<254, 255, 255, 255>>
  /\ rg.hi = U32(1)
  /\ rg.added = U32(4)
  /\ rg.before = 2147483643
  /\ IntFromSizeT(rg.count) = 2147483647

\* steps of the long loop: a full send, a transient send error, a poll
LongOkStep == lp.pc = "send" /\ lp'.last = "ok"
LongTransientStep == lp.pc = "send" /\ lp'.last = "transient"
LongPollStep == lp.pc = "poll" /\ lp'.pc # "poll"

\* C39: in the send loop of a Deferred worker the completion side channel is
\* polled after a successful send exactly when send_count has become a
\* positive multiple of 100, and once after each transient send error;
\* between two polls the number of unconfirmed sends grows by at most 100.
C39_PollCadence ==
  [][/\ LongOkStep =>
          (lp'.pc = "poll" <=>
             (lp'.send_count > 0 /\ lp'.send_count % 100 = 0))
     /\ LongOkStep => lp'.pc \in {"poll", "loop"}
     /\ LongTransientStep => lp'.pc = "poll"
     /\ LongPollStep => lp'.pc = "loop"
     /\ lp'.pc = "poll" => (LongOkStep \/ LongTransientStep)
     /\ lp'.since <= 100
     /\ (lp'.issued - lp'.completion_count) - lp'.base <= 100]_vars

\* the 200th send was followed by the second periodic poll, 100 sends after
\* the first one found every earlier send confirmed
C39_Witness ==
  /\ lp.pc = "poll"
  /\ lp.zc = 1
  /\ lp.send_count = 200
  /\ lp.completion_count = 100
  /\ lp.since = 100
  /\ lp.issued - lp.completion_count - lp.base = 100
====
